---------------------------- MODULE Spec2Model ----------------------------
(***************************************************************************)
(* Verification model of the audio drama generator:                        *)
(*   - the timeline builder (script_parser/script_structure_builder.py),   *)
(*   - the canonical markdown parser (markdown_parser.py, script_parser.py,*)
(*     sound_cue_extractor.py),                                            *)
(*   - voice profile derivation (voice_generator/voice_profiles.py),       *)
(*   - batch processing (script_parser/utils.py).                          *)
(*                                                                         *)
(* Python dicts are modelled as records whose DOMAIN is the dict's key set,*)
(* so that `'k' in d` is  "k" \in DOMAIN d.  A Python str is a sequence of  *)
(* atoms: the punctuation characters the regular expressions look at       *)
(* ("*", ":", " ", "(", ")", "]") are atoms of their own, a word ("John")  *)
(* or a literal the expressions only match whole ("##", "[sound:") is one  *)
(* atom.  Times are exact rationals, held as integers in ticks             *)
(* (TicksPerSecond ticks to the second); float rounding is outside the     *)
(* model.                                                                  *)
(***************************************************************************)
EXTENDS Integers, Sequences, FiniteSets, TLC

VARIABLES
  \* ---- timeline builder (build_script_structure) ----
  params,            \* self.params: the timing parameters after the config override
  scenes,            \* the `scenes` argument, as far as the loop has read it
  cur_elements,      \* scene['elements'] of the scene being read (elements read so far)
  current_time,      \* local current_time
  scene_start_time,  \* local scene_start_time
  scene_elements,    \* local scene_elements
  timeline,          \* script_structure['timeline']
  estimated_duration,\* script_structure['estimated_duration']
  bstate,            \* "scene" (between scenes), "elements" (inside the element
                     \* loop), "returned", "raised" (an exception left the call)
  \* ---- canonical parser (ScriptParser.parse_script, MarkdownParser) ----
  script,            \* the script text: its lines, each a sequence of atoms
  pstate,            \* "editing", "parsed" (parse_script returned),
                     \* "scene_parsed" (parse_scene returned), "validated"
                     \* (validate_script returned)
  sound_cues,        \* parse_script's local sound_cues
  parsed,            \* the structure parse_script returned
  scene_out,         \* the element list parse_scene returned
  speaker_notes,     \* the lines of the file after the script's: its SPEAKER
                     \* NOTES section, if it has one
  validation,        \* what validate_script returned for `parsed`
  \* ---- voice profile derivation (voice_profiles.py) ----
  voice_traits,      \* the trait list of the character being handled
  vstate,            \* "traits" (list being written), "parameters"
                     \* (voice_traits_to_parameters returned), "profile"
                     \* (generate_character_voice_profile returned)
  parameters,        \* the dict voice_traits_to_parameters returned
  profile,           \* the dict generate_character_voice_profile returned;
                     \* its effects entry is a reference to a dict object
  base_effects,      \* the dict objects BASE_VOICE_PROFILES[b]["effects"],
                     \* by base profile name (module state of the process)
  \* ---- batch processing (utils.batch_process_scripts) ----
  script_files,      \* the *.md files of input_dir, in glob order
  format,            \* the format argument
  batch_pos,         \* index of the file the loop is at
  results,           \* local results
  batch_state,       \* "directory", "loop", "returned"
  \* ---- character voices (VoiceGenerator.generate_character_voices) ----
  cast,              \* script_data["characters"] in dict order, each with
                     \* its code, its data, and what generate_voice_clip
                     \* and save_voice_profile do when called for it
  output_dir,        \* the output_dir argument, "None" if not given
  cast_pos,          \* index of the character the loop is at
  cast_result,       \* local result
  voice_files,       \* the files written under output_dir
  cast_state,        \* "script", "loop", "returned"
  \* ---- speaker embedding (VoiceGenerator._prepare_tts_inputs) ----
  speaker_embeddings,\* self.speaker_embeddings: its entries (key, value) in
                     \* insertion order
  tts_profile,       \* the voice_profile argument
  tts_inputs,        \* the inputs returned, or the error raised
  tts_state,         \* "loading", "returned", "raised"
  \* ---- orchestrator (main.py) ----
  main_args,         \* the parsed command line: script, output, config, verbose
  main_pc,           \* "main", "output_dir", "between" (stages), "in_stage",
                     \* "raised", "exited"
  main_events,       \* the calls of the stages and how each ended, in order
  main_returned,     \* the results of the stages that returned
  log_level,         \* the level of the root logger
  exit_code,         \* what main returned, -1 before it returns
  \* ---- downloaders (download_models.py main, both) ----
  dl_args,           \* the command line of the downloader: which of the
                     \* two, and its flags
  dl_env,            \* what the machine does during the run
  dl_models,         \* models_to_download in its order, each with what
                     \* its download returns
  dl_pos,            \* index of the model the loop is at
  success_count,     \* local success_count
  dl_processed,      \* the artifacts the run has tried to get, in order
  dl_exit,           \* what main returned, -1 before it returns
  dl_state,          \* "args", "loop", "exited"
  disk_compared,     \* the free space was compared with the download size
  \* ---- element duration (_calculate_element_duration) ----
  dur_element,       \* the dialogue element
  dur_params,        \* self.params of the builder
  dur_with,          \* the duration calculated for the element
  dur_without,       \* the duration calculated for it without its emotion
  dur_state,         \* "element", "calculated"
  \* ---- sound cue categorization ----
  cue_description,   \* the description of one sound cue, a sequence of atoms
  cue_category,      \* what _categorize_sound_cue returned
  cue_modifiers,     \* what _parse_modifiers returned
  cue_called,        \* the functions called on the description
  \* ---- configuration loader ----
  loaded_config,     \* the document load_config returned
  cfg_result,        \* what validate_config returned or raised, and logged
  cfg_state,         \* start, loaded, validated
  \* ---- effect chain ----
  fx_audio,          \* the audio buffer given to apply_effect_chain
  fx_effects,        \* the effect map, in the order of its keys
  fx_result,         \* what apply_effect_chain returned or raised
  fx_state,          \* input, applied
  \* ---- held voice profiles ----
  held,              \* the profiles returned so far, with the calls that returned them
  \* ---- special sound treatments ----
  notes_script,      \* the text of a script with notes, a sequence of lines
  treatments,        \* what extract_special_sound_treatments returned
  notes_state,       \* editing, extracted
  \* ---- voice entry points ----
  entry_calls,       \* the entry points called in this process, in order
  tts_model_loads,   \* how many times a text-to-speech model was loaded
  vocoder_loads,     \* how many times a vocoder was loaded
  embedding_loads,   \* how many times the speaker embeddings were loaded
  generators,        \* the VoiceGenerator instances constructed
  \* ---- special treatments ----
  tr_scenes,         \* the scenes argument of build_script_structure
  tr_treatments,     \* the special_treatments argument
  tr_structure,      \* the structure build_script_structure returned
  tr_state,          \* "arguments", "built"
  \* ---- equalizer ----
  eq_audio,          \* the audio given to apply_eq, a sequence of samples
  eq_params,         \* the params of the eq entry
  eq_result,         \* what apply_eq returned
  eq_state           \* "recording", "equalized"

buildVars == <<params, scenes, cur_elements, current_time, scene_start_time,
               scene_elements, timeline, estimated_duration, bstate>>

parseVars == <<script, pstate, sound_cues, parsed, scene_out, speaker_notes,
               validation>>

voiceVars == <<voice_traits, vstate, parameters, profile, base_effects>>

batchVars == <<script_files, format, batch_pos, results, batch_state>>

castVars == <<cast, output_dir, cast_pos, cast_result, voice_files, cast_state>>

ttsVars == <<speaker_embeddings, tts_profile, tts_inputs, tts_state>>

mainVars == <<main_args, main_pc, main_events, main_returned, log_level, exit_code>>

dlVars == <<dl_args, dl_env, dl_models, dl_pos, success_count, dl_processed,
           dl_exit, dl_state, disk_compared>>

durVars == <<dur_element, dur_params, dur_with, dur_without, dur_state>>

cueVars == <<cue_description, cue_category, cue_modifiers, cue_called>>

cfgVars == <<loaded_config, cfg_result, cfg_state>>

fxVars == <<fx_audio, fx_effects, fx_result, fx_state>>

heldVars == <<held>>

notesVars == <<notes_script, treatments, notes_state>>

procVars == <<entry_calls, tts_model_loads, vocoder_loads, embedding_loads, generators>>

treatVars == <<tr_scenes, tr_treatments, tr_structure, tr_state>>

eqVars == <<eq_audio, eq_params, eq_result, eq_state>>

vars == <<buildVars, parseVars, voiceVars, batchVars, castVars, ttsVars,
         mainVars, dlVars, durVars, cueVars, cfgVars, fxVars, heldVars,
         notesVars, procVars, treatVars, eqVars>>

\* what an action of one subsystem leaves alone
notBuildVars == <<parseVars, voiceVars, batchVars, castVars, ttsVars,
         mainVars, dlVars, durVars, cueVars, cfgVars, fxVars, heldVars,
         notesVars, procVars, treatVars, eqVars>>
notParseVars == <<buildVars, voiceVars, batchVars, castVars, ttsVars,
         mainVars, dlVars, durVars, cueVars, cfgVars, fxVars, heldVars,
         notesVars, procVars, treatVars, eqVars>>
notVoiceVars == <<buildVars, parseVars, batchVars, castVars, ttsVars,
         mainVars, dlVars, durVars, cueVars, cfgVars, fxVars, heldVars,
         notesVars, procVars, treatVars, eqVars>>
notBatchVars == <<buildVars, parseVars, voiceVars, castVars, ttsVars,
         mainVars, dlVars, durVars, cueVars, cfgVars, fxVars, heldVars,
         notesVars, procVars, treatVars, eqVars>>
notCastVars == <<buildVars, parseVars, voiceVars, batchVars, ttsVars,
         mainVars, dlVars, durVars, cueVars, cfgVars, fxVars, heldVars,
         notesVars, procVars, treatVars, eqVars>>
\* generate_character_voices derives profiles: it acts on the cast and on
\* the voice variables
notVoicecastVars == <<buildVars, parseVars, batchVars, ttsVars, mainVars,
         dlVars, durVars, cueVars, cfgVars, fxVars, heldVars, notesVars,
         procVars, treatVars, eqVars>>
notTtsVars == <<buildVars, parseVars, voiceVars, batchVars, castVars,
         mainVars, dlVars, durVars, cueVars, cfgVars, fxVars, heldVars,
         notesVars, procVars, treatVars, eqVars>>
notMainVars == <<buildVars, parseVars, voiceVars, batchVars, castVars,
         ttsVars, dlVars, durVars, cueVars, cfgVars, fxVars, heldVars,
         notesVars, procVars, treatVars, eqVars>>
notDlVars == <<buildVars, parseVars, voiceVars, batchVars, castVars, ttsVars,
         mainVars, durVars, cueVars, cfgVars, fxVars, heldVars, notesVars,
         procVars, treatVars, eqVars>>
notDurVars == <<buildVars, parseVars, voiceVars, batchVars, castVars,
         ttsVars, mainVars, dlVars, cueVars, cfgVars, fxVars, heldVars,
         notesVars, procVars, treatVars, eqVars>>
notCueVars == <<buildVars, parseVars, voiceVars, batchVars, castVars,
         ttsVars, mainVars, dlVars, durVars, cfgVars, fxVars, heldVars,
         notesVars, procVars, treatVars, eqVars>>
notCfgVars == <<buildVars, parseVars, voiceVars, batchVars, castVars,
         ttsVars, mainVars, dlVars, durVars, cueVars, fxVars, heldVars,
         notesVars, procVars, treatVars, eqVars>>
notFxVars == <<buildVars, parseVars, voiceVars, batchVars, castVars, ttsVars,
         mainVars, dlVars, durVars, cueVars, cfgVars, heldVars, notesVars,
         procVars, treatVars, eqVars>>
notHeldVars == <<buildVars, parseVars, voiceVars, batchVars, castVars,
         ttsVars, mainVars, dlVars, durVars, cueVars, cfgVars, fxVars,
         notesVars, procVars, treatVars, eqVars>>
notNotesVars == <<buildVars, parseVars, voiceVars, batchVars, castVars,
         ttsVars, mainVars, dlVars, durVars, cueVars, cfgVars, fxVars,
         heldVars, procVars, treatVars, eqVars>>
notProcVars == <<buildVars, parseVars, voiceVars, batchVars, castVars,
         ttsVars, mainVars, dlVars, durVars, cueVars, cfgVars, fxVars,
         heldVars, notesVars, treatVars, eqVars>>

\* the calls that return held profiles act on the voice variables too
notVoiceheldVars == <<buildVars, parseVars, batchVars, castVars, ttsVars,
         mainVars, dlVars, durVars, cueVars, cfgVars, fxVars, notesVars,
         procVars, treatVars, eqVars>>
notTreatVars == <<buildVars, parseVars, voiceVars, batchVars, castVars,
         ttsVars, mainVars, dlVars, durVars, cueVars, cfgVars, fxVars,
         heldVars, notesVars, procVars, eqVars>>
notEqVars == <<buildVars, parseVars, voiceVars, batchVars, castVars, ttsVars,
         mainVars, dlVars, durVars, cueVars, cfgVars, fxVars, heldVars,
         notesVars, procVars, treatVars>>

\* a dict without keys, a list without items
EmptyDict == <<>>

\* the value of a subsystem's variables while another subsystem is studied
BuildIdle ==
  /\ params = EmptyDict /\ scenes = <<>> /\ cur_elements = <<>>
  /\ current_time = 0 /\ scene_start_time = 0 /\ scene_elements = <<>>
  /\ timeline = <<>> /\ estimated_duration = 0 /\ bstate = "idle"

ParseIdle ==
  /\ script = <<>> /\ pstate = "idle" /\ sound_cues = <<>>
  /\ parsed = EmptyDict /\ scene_out = <<>>
  /\ speaker_notes = <<>> /\ validation = EmptyDict

VoiceIdle ==
  /\ voice_traits = <<>> /\ vstate = "idle" /\ parameters = EmptyDict
  /\ profile = EmptyDict /\ base_effects = EmptyDict

BatchIdle ==
  /\ script_files = <<>> /\ format = "json" /\ batch_pos = 0
  /\ results = EmptyDict /\ batch_state = "idle"

CastIdle ==
  /\ cast = <<>> /\ output_dir = "None" /\ cast_pos = 0
  /\ cast_result = EmptyDict /\ voice_files = {} /\ cast_state = "idle"

TtsIdle ==
  /\ speaker_embeddings = <<>> /\ tts_profile = EmptyDict /\ tts_inputs = EmptyDict
  /\ tts_state = "idle"

MainIdle ==
  /\ main_args = EmptyDict /\ main_pc = "idle" /\ main_events = <<>>
  /\ main_returned = <<>> /\ log_level = "INFO" /\ exit_code = -1

DlIdle ==
  /\ dl_args = EmptyDict /\ dl_env = EmptyDict /\ dl_models = <<>> /\ dl_pos = 0
  /\ success_count = 0 /\ dl_processed = <<>> /\ dl_exit = -1 /\ dl_state = "idle"
  /\ disk_compared = FALSE

DurIdle ==
  /\ dur_element = EmptyDict /\ dur_params = EmptyDict /\ dur_with = 0
  /\ dur_without = 0 /\ dur_state = "idle"

CueIdle ==
  /\ cue_description = <<>> /\ cue_category = ""
  /\ cue_modifiers = EmptyDict /\ cue_called = {}

CfgIdle ==
  /\ loaded_config = [kind |-> "unloaded", entries |-> {}]
  /\ cfg_result = [outcome |-> "", logged |-> <<>>]
  /\ cfg_state = "start"

FxIdle ==
  /\ fx_audio = [samples |-> <<>>, library |-> <<>>]
  /\ fx_effects = <<>>
  /\ fx_result = [outcome |-> "", audio |-> [samples |-> <<>>, library |-> <<>>]]
  /\ fx_state = "input"

HeldIdle ==
  held = <<>>

NotesIdle ==
  notes_script = <<>> /\ treatments = <<>> /\ notes_state = "editing"

ProcIdle ==
  /\ entry_calls = <<>> /\ tts_model_loads = 0 /\ vocoder_loads = 0
  /\ embedding_loads = 0 /\ generators = 0

TreatIdle ==
  /\ tr_scenes = <<>> /\ tr_treatments = <<>> /\ tr_structure = EmptyDict
  /\ tr_state = "idle"

EqIdle ==
  /\ eq_audio = <<>> /\ eq_params = EmptyDict /\ eq_result = EmptyDict
  /\ eq_state = "idle"

\* every subsystem but the named one is at rest
IdleExcept(subsystem) ==
  /\ IF subsystem = "build" THEN TRUE ELSE BuildIdle
  /\ IF subsystem = "parse" THEN TRUE ELSE ParseIdle
  /\ IF subsystem \in {"voice", "cast", "held"} THEN TRUE ELSE VoiceIdle
  /\ IF subsystem = "batch" THEN TRUE ELSE BatchIdle
  /\ IF subsystem = "cast" THEN TRUE ELSE CastIdle
  /\ IF subsystem = "tts" THEN TRUE ELSE TtsIdle
  /\ IF subsystem = "main" THEN TRUE ELSE MainIdle
  /\ IF subsystem = "dl" THEN TRUE ELSE DlIdle
  /\ IF subsystem = "dur" THEN TRUE ELSE DurIdle
  /\ IF subsystem = "cue" THEN TRUE ELSE CueIdle
  /\ IF subsystem = "cfg" THEN TRUE ELSE CfgIdle
  /\ IF subsystem = "fx" THEN TRUE ELSE FxIdle
  /\ IF subsystem = "held" THEN TRUE ELSE HeldIdle
  /\ IF subsystem = "notes" THEN TRUE ELSE NotesIdle
  /\ IF subsystem = "proc" THEN TRUE ELSE ProcIdle
  /\ IF subsystem = "treat" THEN TRUE ELSE TreatIdle
  /\ IF subsystem = "eq" THEN TRUE ELSE EqIdle

-----------------------------------------------------------------------------
(* Bounds of the model *)

MaxScenes == 2      \* scenes in one scene list
MaxElements == 3    \* elements in one scene list, all scenes together
MaxLines == 4       \* lines of a script text
MaxTraits == 2      \* tokens in one trait list
MaxFiles == 3       \* script files in the input directory
MaxCharacters == 3  \* characters of script_data in generate_character_voices
MaxEmbeddings == 3  \* entries of self.speaker_embeddings
MaxModels == 2      \* models named with --models
MaxWords == 3       \* words of the text of one dialogue element
MaxCueWords == 3    \* words of the description of one sound cue
MaxSamples == 2     \* samples of the audio buffer
MaxEffects == 3     \* entries of the effect map
MaxHeld == 2        \* profiles returned and held in one process
MaxNoteLines == 5   \* lines of a script with notes
MaxEntryCalls == 3  \* calls of the voice entry points in one process
MaxTreatments == 2  \* entries of the special_treatments argument

-----------------------------------------------------------------------------
(* Generic helpers *)

RECURSIVE SumSeq(_)
SumSeq(s) == IF s = <<>> THEN 0 ELSE Head(s) + SumSeq(Tail(s))

RECURSIVE Flatten(_)
Flatten(ss) == IF ss = <<>> THEN <<>> ELSE Head(ss) \o Flatten(Tail(ss))

Count(s, P(_)) == Cardinality({i \in DOMAIN s : P(s[i])})

-----------------------------------------------------------------------------
(* script_structure_builder.py *)

\* One second, in ticks.  3 * 17 * 1000 makes every duration the code can
\* compute from the parameter sets below a whole number of ticks
\* (denominators 3 and 17 come from the speaking rates 150 * 1.2 and
\* 150 * 0.85; the remaining factors from the percent multipliers).
TicksPerSecond == 3 * 17 * 1000

words_per_minute == 150

\* self.params as __init__ sets it without a config
DefaultParams ==
  [ words_per_minute       |-> words_per_minute,
    pause_after_sound      |-> TicksPerSecond \div 2,         \* 0.5
    pause_between_speakers |-> (3 * TicksPerSecond) \div 10,  \* 0.3
    pause_after_scene      |-> (3 * TicksPerSecond) \div 2,   \* 1.5
    average_sound_duration |-> 3 * TicksPerSecond ]           \* 3.0

\* self.params after params.update(config['script_parser']['timing']):
\* the defaults, or the defaults overridden by a timing section.  The config
\* is not validated, so a timing section may hold negative values.
ParamSets ==
  { DefaultParams,
    [DefaultParams EXCEPT !.pause_after_scene = 0, !.pause_after_sound = 0],
    [DefaultParams EXCEPT !.pause_after_scene = -(2 * TicksPerSecond)],
    [DefaultParams EXCEPT !.average_sound_duration = -TicksPerSecond] }

NonNegativeParams(p) ==
  /\ p.words_per_minute > 0
  /\ p.pause_after_sound >= 0
  /\ p.pause_between_speakers >= 0
  /\ p.pause_after_scene >= 0
  /\ p.average_sound_duration >= 0

\* The `characters` argument: John speaks slowly, Mary fast, Sam has a
\* profile without a speed; any other name is not a key of the dict.
Characters ==
  (<<"John">> :> [voice_profile |-> [speed |-> "slow"]])
  @@ (<<"Mary">> :> [voice_profile |-> [speed |-> "fast"]])
  @@ (<<"Sam">> :> [voice_profile |-> [pitch |-> "low"]])

\* Elements a scene list may hold
ElementPool ==
  { [type |-> "sound", description |-> <<"door">>],
    [type |-> "sound", description |-> <<"quick", " ", "tap">>, duration |-> "short"],
    [type |-> "dialogue", character |-> <<"John">>,
       text |-> <<"This", " ", "is", " ", "a", " ", "test", " ", "sentence.">>],
    [type |-> "dialogue", character |-> <<"Ghost">>,
       text |-> <<"Leave", " ", "this", " ", "place">>,
       emotion |-> <<"Angry">>, is_internal |-> TRUE],
    [type |-> "transition", description |-> <<"later">>] }

SceneNames == {<<"SCENE_ONE">>, <<"SCENE_TWO">>}

\* len(text.split()): the maximal runs of non-blank atoms
WordCount(text) ==
  Cardinality({i \in DOMAIN text : text[i] # " " /\ (i = 1 \/ text[i - 1] = " ")})

\* str.lower(), atom by atom, on the capitalised words the model uses
LowerAtom(a) ==
  CASE a = "Angry" -> "angry"
    [] a = "Sad" -> "sad"
    [] a = "Rain" -> "rain"
    [] a = "Quick" -> "quick"
    [] OTHER -> a

Lower(s) == [i \in DOMAIN s |-> LowerAtom(s[i])]

\* _calculate_element_duration falls off its if/elif and returns None for an
\* element that is neither a sound nor a dialogue.
DurationIsNone(element) == element.type \notin {"sound", "dialogue"}

SoundDuration(element, p) ==
  LET duration == p.average_sound_duration IN
  IF "duration" \in DOMAIN element
    THEN IF element.duration = "short" THEN duration \div 2
         ELSE IF element.duration = "long" THEN duration * 2
         ELSE duration
    ELSE duration

\* words_per_minute after the character's speed adjustment, in percent of
\* the base rate
SpeedPercent(element, characters) ==
  IF element.character \in DOMAIN characters
    THEN LET char_profile == characters[element.character].voice_profile IN
         IF "speed" \in DOMAIN char_profile
           THEN IF char_profile.speed = "fast" THEN 120
                ELSE IF char_profile.speed = "slow" THEN 85
                ELSE 100
           ELSE 100
    ELSE 100

\* EmotionPercent with the excited emotions slowing the delivery down
EmotionPercent_ExcitedSlower(element) ==
  IF "emotion" \in DOMAIN element
    THEN LET emotion == Lower(element.emotion) IN
         IF emotion \in {<<"excited">>, <<"angry">>, <<"furious">>, <<"agitated">>}
           THEN 110
         ELSE IF emotion \in {<<"sad">>, <<"solemn">>, <<"grieving">>, <<"melancholy">>}
           THEN 115
         ELSE IF emotion \in {<<"thoughtful">>, <<"considering">>, <<"pondering">>}
           THEN 110
         ELSE 100
    ELSE 100

EmotionPercent(element) ==
  IF "emotion" \in DOMAIN element
    THEN LET emotion == Lower(element.emotion) IN
         IF emotion \in {<<"excited">>, <<"angry">>, <<"furious">>, <<"agitated">>}
           THEN 90
         ELSE IF emotion \in {<<"sad">>, <<"solemn">>, <<"grieving">>, <<"melancholy">>}
           THEN 115
         ELSE IF emotion \in {<<"thoughtful">>, <<"considering">>, <<"pondering">>}
           THEN 110
         ELSE 100
    ELSE 100

\* element.get('is_internal', False)
IsInternal(element) ==
  IF "is_internal" \in DOMAIN element THEN element.is_internal ELSE FALSE

\* DialogueDuration without the adjustment for internal thoughts
DialogueDuration_InternalIgnored(element, characters, p) ==
  LET word_count == WordCount(element.text)
      base     == (word_count * 60 * TicksPerSecond) \div p.words_per_minute
      spoken   == (base * 100) \div SpeedPercent(element, characters)
  IN (spoken * EmotionPercent(element)) \div 100

DialogueDuration(element, characters, p) ==
  LET word_count == WordCount(element.text)
      base     == (word_count * 60 * TicksPerSecond) \div p.words_per_minute
      spoken   == (base * 100) \div SpeedPercent(element, characters)
      emotional == (spoken * EmotionPercent(element)) \div 100
  IN IF IsInternal(element) THEN (emotional * 110) \div 100 ELSE emotional

\* _calculate_element_duration, where it returns a number
CalculateElementDuration(element, characters, p) ==
  IF element.type = "sound" THEN SoundDuration(element, p)
  ELSE DialogueDuration(element, characters, p)

\* the two pauses exchanged
PauseAfterElement_Swapped(element, p) ==
  IF element.type = "sound" THEN p.pause_between_speakers
  ELSE IF element.type = "dialogue" THEN p.pause_after_sound
  ELSE 0

\* "Add appropriate pause based on element type"
PauseAfterElement(element, p) ==
  IF element.type = "sound" THEN p.pause_after_sound
  ELSE IF element.type = "dialogue" THEN p.pause_between_speakers
  ELSE 0

\* element_with_timing: element.copy() plus start_time and duration
WithTiming(element, start, dur) ==
  [k \in DOMAIN element \cup {"start_time", "duration"} |->
     IF k = "start_time" THEN start
     ELSE IF k = "duration" THEN dur
     ELSE element[k]]

\* one pass of the element loop for an element with a numeric duration: the
\* element with its timing, and the clock after it
ScheduleElement(element, t, characters, p) ==
  LET duration == CalculateElementDuration(element, characters, p) IN
  [ element |-> WithTiming(element, t, duration),
    time    |-> t + duration + PauseAfterElement(element, p) ]

\* the timeline entry of a scene
SceneEntry(name, start, end, elements) ==
  [ type       |-> "scene",
    name       |-> name,
    start_time |-> start,
    end_time   |-> end,
    duration   |-> end - start,
    elements   |-> elements ]

BuildInit ==
  /\ params \in ParamSets
  /\ scenes = <<>>
  /\ cur_elements = <<>>
  /\ current_time = 0
  /\ scene_start_time = 0
  /\ scene_elements = <<>>
  /\ timeline = <<>>
  /\ estimated_duration = 0
  /\ bstate = "scene"
  /\ IdleExcept("build")

ElementsRead == Len(Flatten([i \in DOMAIN scenes |-> scenes[i].elements]))
                  + Len(cur_elements)

\* scene_start_time taken once, before the loop, instead of per scene
BuildSceneStart_StartOnce ==
  /\ bstate = "scene"
  /\ Len(scenes) < MaxScenes
  /\ scene_elements' = <<>>
  /\ cur_elements' = <<>>
  /\ bstate' = "elements"
  /\ UNCHANGED <<params, scenes, current_time, scene_start_time, timeline,
                 estimated_duration>>
  /\ UNCHANGED notBuildVars

\* `for scene in scenes:` takes the next scene
BuildSceneStart ==
  /\ bstate = "scene"
  /\ Len(scenes) < MaxScenes
  /\ scene_start_time' = current_time
  /\ scene_elements' = <<>>
  /\ cur_elements' = <<>>
  /\ bstate' = "elements"
  /\ UNCHANGED <<params, scenes, current_time, timeline, estimated_duration>>
  /\ UNCHANGED notBuildVars

\* one pass of `for element in scene['elements']:`
BuildElement ==
  /\ bstate = "elements"
  /\ ElementsRead < MaxElements
  /\ \E element \in ElementPool :
       /\ cur_elements' = Append(cur_elements, element)
       /\ IF DurationIsNone(element)
            THEN \* current_time += None raises TypeError
                 /\ bstate' = "raised"
                 /\ UNCHANGED <<current_time, scene_elements>>
            ELSE LET r == ScheduleElement(element, current_time, Characters, params) IN
                 /\ scene_elements' = Append(scene_elements, r.element)
                 /\ current_time' = r.time
                 /\ bstate' = "elements"
  /\ UNCHANGED <<params, scenes, scene_start_time, timeline, estimated_duration>>
  /\ UNCHANGED notBuildVars

\* the element loop of the scene ends: the scene enters the timeline
BuildSceneEnd ==
  /\ bstate = "elements"
  /\ \E name \in SceneNames :
       /\ scenes' = Append(scenes, [name |-> name, elements |-> cur_elements])
       /\ timeline' = Append(timeline,
            SceneEntry(name, scene_start_time, current_time, scene_elements))
  /\ current_time' = current_time + params.pause_after_scene
  /\ cur_elements' = <<>>
  /\ bstate' = "scene"
  /\ UNCHANGED <<params, scene_start_time, scene_elements, estimated_duration>>
  /\ UNCHANGED notBuildVars

\* the scene loop ends: estimated_duration is set and the structure returned
BuildReturn ==
  /\ bstate = "scene"
  /\ estimated_duration' = current_time
  /\ bstate' = "returned"
  /\ UNCHANGED <<params, scenes, cur_elements, current_time, scene_start_time,
                 scene_elements, timeline>>
  /\ UNCHANGED notBuildVars

-----------------------------------------------------------------------------
(* Properties of the timeline builder *)

AllInputElements == Flatten([i \in DOMAIN scenes |-> scenes[i].elements])
AllTimelineElements == Flatten([i \in DOMAIN timeline |-> timeline[i].elements])

\* C1: when build_script_structure returns for a scene list of Sound and
\* Dialogue elements, estimated_duration is the sum of the element durations
\* plus pause_after_sound per Sound, pause_between_speakers per Dialogue and
\* pause_after_scene per scene, the last scene included.
C1_EstimatedDurationIsSum ==
  (bstate = "returned"
     /\ \A i \in DOMAIN AllInputElements :
          AllInputElements[i].type \in {"sound", "dialogue"})
  => estimated_duration =
       SumSeq([i \in DOMAIN AllTimelineElements |-> AllTimelineElements[i].duration])
       + Count(AllInputElements, LAMBDA e : e.type = "sound") * params.pause_after_sound
       + Count(AllInputElements, LAMBDA e : e.type = "dialogue")
           * params.pause_between_speakers
       + Len(scenes) * params.pause_after_scene

C1_Witness ==
  /\ bstate = "returned"
  /\ Len(scenes) = 2
  /\ \E i \in DOMAIN AllInputElements : AllInputElements[i].type = "sound"
  /\ \E i \in DOMAIN AllInputElements : AllInputElements[i].type = "dialogue"
  /\ params = DefaultParams

\* C4 as claimed: for any scene list of Dialogue, Sound or Transition
\* elements the build completes (no exception leaves it) and every element
\* of every timeline scene carries a duration >= 0.
C4_CompletesWithNonNegativeDurations ==
  /\ bstate # "raised"
  /\ \A i \in DOMAIN AllTimelineElements : AllTimelineElements[i].duration >= 0

\* C5: with non-negative timing parameters the timeline holds the scenes in
\* input order, start_time values are non-decreasing and every scene starts
\* no earlier than each earlier scene's end_time.
C5_ScenesOrderedAndDisjoint ==
  NonNegativeParams(params) =>
    /\ Len(timeline) = Len(scenes)
    /\ \A i \in DOMAIN timeline : timeline[i].name = scenes[i].name
    /\ \A i, j \in DOMAIN timeline :
         i < j => /\ timeline[i].start_time <= timeline[j].start_time
                  /\ timeline[i].end_time <= timeline[j].start_time

C5_Witness ==
  /\ bstate = "returned"
  /\ NonNegativeParams(params)
  /\ Len(timeline) = 2
  /\ timeline[1].elements # <<>>
  /\ timeline[1].name # timeline[2].name
  /\ timeline[2].start_time > timeline[1].end_time

BuildNext ==
  \/ BuildSceneStart
  \/ BuildElement
  \/ BuildSceneEnd
  \/ BuildReturn

SpecBuild == BuildInit /\ [][BuildNext]_vars


-----------------------------------------------------------------------------
(* Text helpers *)

Min(S) == CHOOSE x \in S : \A y \in S : x <= y
Max(S) == CHOOSE x \in S : \A y \in S : x >= y

RECURSIVE LStrip(_)
LStrip(s) == IF s # <<>> /\ Head(s) = " " THEN LStrip(Tail(s)) ELSE s

RECURSIVE RStrip(_)
RStrip(s) ==
  IF s # <<>> /\ s[Len(s)] = " " THEN RStrip(SubSeq(s, 1, Len(s) - 1)) ELSE s

\* str.strip()
Strip(s) == RStrip(LStrip(s))

\* the first index after i that holds no blank (Len(s) + 1 when there is none)
SkipSpaces(s, i) == Min({k \in (i + 1)..(Len(s) + 1) : k = Len(s) + 1 \/ s[k] # " "})

-----------------------------------------------------------------------------
(* markdown_parser.py: parse_scene *)

\* re.search(r'\[sound:\s*(.+?)\]', s) from index `from` on: the places where
\* a match can start.  The group takes at least one atom, so the closing
\* bracket stands two or more places after "[sound:".
SoundStarts(s, from) ==
  {i \in from..Len(s) : s[i] = "[sound:" /\ \E j \in (i + 2)..Len(s) : s[j] = "]"}

\* The match starting at i: \s* is greedy and gives back blanks only when no
\* bracket follows; the lazy group ends at the first bracket after its start.
SoundMatch(s, i) ==
  LET g == Max({k \in (i + 1)..SkipSpaces(s, i) : \E j \in (k + 1)..Len(s) : s[j] = "]"})
      j == Min({k \in (g + 1)..Len(s) : s[k] = "]"})
  IN [start |-> i, end |-> j, group |-> SubSeq(s, g, j - 1)]

\* r'\*\*(.+?)\*\*:\s*(.+)$': where the bold opens, and where it can close
\* (closing stars followed by a colon and at least one more atom)
BoldOpens(s) == {i \in 1..(Len(s) - 1) : s[i] = "*" /\ s[i + 1] = "*"}

StandardCloses(s, i) ==
  {j \in (i + 3)..(Len(s) - 3) : s[j] = "*" /\ s[j + 1] = "*" /\ s[j + 2] = ":"}

StandardMatches(s) == \E i \in BoldOpens(s) : StandardCloses(s, i) # {}

\* groups 1 and 2 of the standard pattern (leftmost open, lazy first group)
StandardGroups(s) ==
  LET i == Min({k \in BoldOpens(s) : StandardCloses(s, k) # {}})
      j == Min(StandardCloses(s, i))
  IN <<SubSeq(s, i + 2, j - 1), SubSeq(s, j + 3, Len(s))>>

\* r'\*\*(.+?)\*\*\s*\((.+?)\):\s*(.+)$': the closing stars at j, then blanks,
\* "(", a lazy group, "):" and at least one more atom
EmotionEnds(s, j) ==
  LET k == SkipSpaces(s, j + 1) IN
  IF k <= Len(s) /\ s[k] = "("
    THEN {l \in (k + 2)..(Len(s) - 2) : s[l] = ")" /\ s[l + 1] = ":"}
    ELSE {}

EmotionCloses(s, i) ==
  {j \in (i + 3)..(Len(s) - 1) : s[j] = "*" /\ s[j + 1] = "*" /\ EmotionEnds(s, j) # {}}

EmotionMatches(s) == \E i \in BoldOpens(s) : EmotionCloses(s, i) # {}

EmotionGroups(s) ==
  LET i == Min({k \in BoldOpens(s) : EmotionCloses(s, k) # {}})
      j == Min(EmotionCloses(s, i))
      k == SkipSpaces(s, j + 1)
      l == Min(EmotionEnds(s, j))
  IN <<SubSeq(s, i + 2, j - 1), SubSeq(s, k + 1, l - 1), SubSeq(s, l + 2, Len(s))>>

\* re.match(r'\((.+?)\)\s*(.+)', text): an emotion in parentheses at the
\* start of the text
LeadingEmotionEnds(t) ==
  IF t # <<>> /\ t[1] = "(" THEN {j \in 3..(Len(t) - 1) : t[j] = ")"} ELSE {}

AddKey(d, k, v) == [x \in DOMAIN d \cup {k} |-> IF x = k THEN v ELSE d[x]]

\* the dialogue element of the standard pattern
StandardElement(s) ==
  LET g == StandardGroups(s)
      character == Strip(g[1])
      text == Strip(g[2])
      base == [type |-> "dialogue", character |-> character, text |-> text]
      ends == LeadingEmotionEnds(text)
  IN IF ends # {}
       THEN [type |-> "dialogue", character |-> character,
             emotion |-> Strip(SubSeq(text, 2, Min(ends) - 1)),
             text |-> Strip(SubSeq(text, Min(ends) + 1, Len(text)))]
       ELSE base

\* the dialogue element of the pattern with inline emotion
EmotionElement(s) ==
  LET g == EmotionGroups(s) IN
  [type |-> "dialogue", character |-> Strip(g[1]), emotion |-> Strip(g[2]),
   text |-> Strip(g[3])]

\* re.search(r'\*(.+?)\*', text): "Check for internal thoughts"
ThoughtStarts(t) ==
  {a \in 1..Len(t) : t[a] = "*" /\ \E b \in (a + 2)..Len(t) : t[b] = "*"}

WithThought(e) ==
  LET t == e.text IN
  IF ThoughtStarts(t) = {} THEN e
  ELSE LET a == Min(ThoughtStarts(t))
           b == Min({k \in (a + 2)..Len(t) : t[k] = "*"})
       IN IF a = 1 /\ b = Len(t)
            THEN AddKey([e EXCEPT !.text = Strip(SubSeq(t, 2, Len(t) - 1))],
                        "is_internal", TRUE)
            ELSE AddKey(e, "has_internal", TRUE)

\* the elements the pattern loop appends for a stripped line: the first
\* pattern that matches decides, then the loop breaks
DialogueElements(s) ==
  IF StandardMatches(s) THEN <<WithThought(StandardElement(s))>>
  ELSE IF EmotionMatches(s) THEN <<WithThought(EmotionElement(s))>>
  ELSE <<>>

\* "Narrator:" in line
NarratorAt(s) == {n \in 1..(Len(s) - 1) : s[n] = "Narrator" /\ s[n + 1] = ":"}

\* any(e in elements for e in [{'type': 'sound'}, {'type': 'dialogue'}]):
\* an element of the list that is one of these two one-key dicts
HasBareElement(elements) ==
  \E k \in DOMAIN elements :
    DOMAIN elements[k] = {"type"} /\ elements[k].type \in {"sound", "dialogue"}

\* the Narrator fallback, run after the pattern loop with the list as it
\* then stands; re.search(r'Narrator:\s*(.+)') needs an atom after the colon
NarratorElements(s, elements) ==
  IF NarratorAt(s) # {} /\ ~HasBareElement(elements)
    THEN LET n == Min(NarratorAt(s)) IN
         IF n + 2 <= Len(s)
           THEN <<[type |-> "dialogue", character |-> <<"Narrator">>,
                   text |-> Strip(SubSeq(s, n + 2, Len(s)))]>>
           ELSE <<>>
    ELSE <<>>

\* one pass of `for line in lines:`: the list after the line
ParseLine(raw, elements) ==
  LET s == Strip(raw) IN
  IF s = <<>> THEN elements
  ELSE IF SoundStarts(s, 1) # {}
    THEN Append(elements,
           [type |-> "sound",
            description |-> Strip(SoundMatch(s, Min(SoundStarts(s, 1))).group)])
  ELSE LET withDialogue == elements \o DialogueElements(s) IN
       withDialogue \o NarratorElements(s, withDialogue)

RECURSIVE ParseLines(_, _, _)
ParseLines(lines, k, elements) ==
  IF k > Len(lines) THEN elements
  ELSE ParseLines(lines, k + 1, ParseLine(lines[k], elements))

\* parse_scene(scene_content), the content given as its lines
ParseScene(lines) == ParseLines(lines, 1, <<>>)


-----------------------------------------------------------------------------
(* markdown_parser.py: extract_sections;  script_parser.py: _extract_scenes *)
(* The script text is its sequence of lines, every line ended by a newline. *)

IsBlank(line) == Strip(line) = <<>>

\* a line r'^\s*##\s+(.+?)\s*$' matches: "##", a blank, then a heading text
IsHeading(line) ==
  LET s == LStrip(line) IN
  Len(s) >= 3 /\ s[1] = "##" /\ s[2] = " " /\ Strip(SubSeq(s, 3, Len(s))) # <<>>

HeadingText(line) == LET s == LStrip(line) IN Strip(SubSeq(s, 3, Len(s)))

\* group 2 of section_pattern for the heading in line h, as its lines.  The
\* heading's \s*$\n runs over the blank lines that follow; the lazy
\* [\s\S]*? then stops at the first place where the lookahead holds: at once
\* if a heading follows, and otherwise at the end of the first line, because
\* with re.MULTILINE the alternative \s*$ holds at every line end.
SectionContent(text, h) ==
  LET rest == {n \in (h + 1)..Len(text) : ~IsBlank(text[n])} IN
  IF rest = {} THEN <<>>
  ELSE LET n == Min(rest) IN
       IF IsHeading(text[n]) THEN <<>> ELSE <<Strip(text[n])>>

\* sections[heading] = content on a dict kept as a list of entries: a new
\* key goes to the end, a known key keeps its place and takes the new value
DictSet(d, key, value) ==
  IF \E i \in DOMAIN d : d[i].key = key
    THEN [i \in DOMAIN d |-> IF d[i].key = key THEN [key |-> key, value |-> value]
                             ELSE d[i]]
    ELSE Append(d, [key |-> key, value |-> value])

\* the title line: r'^\s*#\s+(.+?)\s*$'
IsTitle(line) ==
  LET s == LStrip(line) IN
  Len(s) >= 3 /\ s[1] = "#" /\ s[2] = " " /\ Strip(SubSeq(s, 3, Len(s))) # <<>>

RECURSIVE SectionsFrom(_, _, _)
SectionsFrom(text, h, d) ==
  IF h > Len(text) THEN d
  ELSE IF IsHeading(text[h])
    THEN SectionsFrom(text, h + 1, DictSet(d, HeadingText(text[h]), SectionContent(text, h)))
    ELSE SectionsFrom(text, h + 1, d)

\* extract_sections(markdown_text)
ExtractSections(text) ==
  LET titles == {n \in DOMAIN text : IsTitle(text[n])}
      start == IF titles = {} THEN <<>>
               ELSE <<[key |-> <<"TITLE">>, value |-> <<HeadingText(text[Min(titles)])>>]>>
  IN SectionsFrom(text, 1, start)

special_sections ==
  {<<"TITLE">>, <<"PREMISE">>, <<"SPEAKER", " ", "NOTES">>, <<"PRODUCTION", " ", "NOTES">>}

RECURSIVE ScenesOf(_, _)
ScenesOf(sections, k) ==
  IF k > Len(sections) THEN <<>>
  ELSE IF sections[k].key \in special_sections THEN ScenesOf(sections, k + 1)
  ELSE <<[name |-> sections[k].key, elements |-> ParseScene(sections[k].value)]>>
         \o ScenesOf(sections, k + 1)

\* _extract_scenes(script_content)
ExtractScenes(text) == ScenesOf(ExtractSections(text), 1)

\* _extract_metadata(script_content)
ExtractMetadata(text) ==
  LET sections == ExtractSections(text)
      has(key) == \E i \in DOMAIN sections : sections[i].key = key
      get(key) == sections[CHOOSE i \in DOMAIN sections : sections[i].key = key].value
      m1 == IF has(<<"TITLE">>) THEN [title |-> get(<<"TITLE">>)] ELSE EmptyDict
  IN IF has(<<"PREMISE">>) THEN AddKey(m1, "premise", get(<<"PREMISE">>)) ELSE m1

-----------------------------------------------------------------------------
(* sound_cue_extractor.py: extract_sound_cues *)

weather_keywords ==
  <<"rain", "thunder", "lightning", "storm", "wind", "snow", "hail", "blizzard">>

electronic_keywords ==
  <<"phone", "beep", "computer", "electronic", "digital", "alarm", "static">>

\* self.sound_categories, in the dict's order
sound_categories ==
  << [category |-> "ambient", keywords |->
        <<"ambient", "background", "atmosphere", "room tone", "environment", "wind",
          "rain", "forest", "city", "crowd", "traffic", "restaurant", "birds",
          "ocean", "waves", "fire", "crackling">>],
     [category |-> "transition", keywords |->
        <<"transition", "flashback", "dream", "memory", "time passing", "fade",
          "whoosh", "swoosh", "scene change">>],
     [category |-> "impact", keywords |->
        <<"crash", "bang", "explosion", "slam", "thud", "hit", "punch", "collision",
          "breaking", "smash", "shatter", "impact">>],
     [category |-> "object", keywords |->
        <<"door", "window", "car", "engine", "machine", "phone", "clock", "glass",
          "paper", "fabric", "footsteps", "knock", "bell", "alarm">>],
     [category |-> "weather", keywords |->
        <<"rain", "thunder", "lightning", "wind", "storm", "blizzard", "snow", "hail",
          "hurricane", "tornado">>],
     [category |-> "animal", keywords |->
        <<"dog", "cat", "bird", "wolf", "howl", "roar", "chirp", "growl", "bark",
          "meow", "neigh", "animal">>],
     [category |-> "electronic", keywords |->
        <<"beep", "static", "computer", "radio", "television", "phone", "alarm",
          "electronic", "digital", "interference">>],
     [category |-> "human", keywords |->
        <<"whisper", "cough", "laugh", "cry", "scream", "sigh", "gasp", "breath",
          "heartbeat", "footsteps", "clap", "snap", "whistle">>],
     [category |-> "musical", keywords |->
        <<"music", "melody", "theme", "song", "tune", "jingle", "chord", "piano",
          "guitar", "drum", "orchestra", "band", "instrument">>] >>

\* the keywords that occur inside a word of the model's descriptions: the
\* word itself if it is a keyword, and the keywords it holds as a substring
KeywordsWithin(word) ==
  CASE word = "slams" -> {"slam"}
    [] word = "scary" -> {"car"}
    [] word = "gradually" -> {"gradual", "gradually"}
    [] OTHER -> {word}

\* the keyword two neighbouring words make with the blank between them
TwoWords(first, second) ==
  CASE first = "room" /\ second = "tone" -> "room tone"
    [] first = "time" /\ second = "passing" -> "time passing"
    [] first = "scene" /\ second = "change" -> "scene change"
    [] OTHER -> ""

\* `keyword in description_lower`, a substring test
KeywordIn(keyword, description_lower) ==
  \/ \E i \in DOMAIN description_lower :
       keyword \in KeywordsWithin(description_lower[i])
  \/ \E i \in 1..(Len(description_lower) - 2) :
       /\ description_lower[i + 1] = " "
       /\ keyword = TwoWords(description_lower[i], description_lower[i + 2])

AnyKeywordIn(keywords, description_lower) ==
  \E k \in DOMAIN keywords : KeywordIn(keywords[k], description_lower)

\* _categorize_sound_cue with the table consulted before the two lists
CategorizeSoundCue_TableFirst(description) ==
  LET description_lower == Lower(description)
      hits == {c \in DOMAIN sound_categories :
                 AnyKeywordIn(sound_categories[c].keywords, description_lower)}
  IN IF hits # {} THEN sound_categories[Min(hits)].category
     ELSE IF AnyKeywordIn(weather_keywords, description_lower) THEN "weather"
     ELSE IF AnyKeywordIn(electronic_keywords, description_lower) THEN "electronic"
     ELSE "misc"

\* _categorize_sound_cue(description)
CategorizeSoundCue(description) ==
  LET description_lower == Lower(description)
      hits == {c \in DOMAIN sound_categories :
                 AnyKeywordIn(sound_categories[c].keywords, description_lower)}
  IN IF AnyKeywordIn(weather_keywords, description_lower) THEN "weather"
     ELSE IF AnyKeywordIn(electronic_keywords, description_lower) THEN "electronic"
     ELSE IF hits # {} THEN sound_categories[Min(hits)].category
     ELSE "misc"

\* re.search(r'\b(w1|w2|...)\b', description, re.IGNORECASE): the first word
\* of the description that is one of the words, lower-cased (<<>> if none)
FirstWordAmong(description, words) ==
  LET at == {i \in DOMAIN description : LowerAtom(description[i]) \in words} IN
  IF at = {} THEN <<>> ELSE <<LowerAtom(description[Min(at)])>>

\* _parse_modifiers with the volume looked for only when no intensity word
\* was found
ParseModifiers_VolumeUnlessIntensity(description) ==
  LET intensity == FirstWordAmong(description,
                     {"increasing", "decreasing", "intensifying", "fading", "growing",
                      "building", "diminishing"})
      duration == FirstWordAmong(description,
                     {"brief", "short", "long", "extended", "continuous", "sustained",
                      "quick"})
      volume == FirstWordAmong(description,
                     {"loud", "soft", "quiet", "gentle", "strong", "heavy", "light",
                      "faint", "distant"})
      m1 == IF intensity = <<>> THEN EmptyDict
            ELSE IF intensity[1] \in {"increasing", "intensifying", "growing", "building"}
              THEN [intensity_change |-> "increasing"]
            ELSE [intensity_change |-> "decreasing"]
      m2 == IF duration = <<>> THEN m1
            ELSE IF duration[1] \in {"brief", "short", "quick"}
              THEN AddKey(m1, "duration", "short")
            ELSE AddKey(m1, "duration", "long")
  IN IF volume = <<>> \/ intensity # <<>> THEN m2
     ELSE IF volume[1] \in {"loud", "strong", "heavy"} THEN AddKey(m2, "volume", "loud")
     ELSE AddKey(m2, "volume", "soft")

\* _parse_modifiers(description)
ParseModifiers(description) ==
  LET intensity == FirstWordAmong(description,
                     {"increasing", "decreasing", "intensifying", "fading", "growing",
                      "building", "diminishing"})
      duration == FirstWordAmong(description,
                     {"brief", "short", "long", "extended", "continuous", "sustained",
                      "quick"})
      volume == FirstWordAmong(description,
                     {"loud", "soft", "quiet", "gentle", "strong", "heavy", "light",
                      "faint", "distant"})
      m1 == IF intensity = <<>> THEN EmptyDict
            ELSE IF intensity[1] \in {"increasing", "intensifying", "growing", "building"}
              THEN [intensity_change |-> "increasing"]
            ELSE [intensity_change |-> "decreasing"]
      m2 == IF duration = <<>> THEN m1
            ELSE IF duration[1] \in {"brief", "short", "quick"}
              THEN AddKey(m1, "duration", "short")
            ELSE AddKey(m1, "duration", "long")
  IN IF volume = <<>> THEN m2
     ELSE IF volume[1] \in {"loud", "strong", "heavy"} THEN AddKey(m2, "volume", "loud")
     ELSE AddKey(m2, "volume", "soft")

\* dict.update(other)
Update(d, other) ==
  [k \in DOMAIN d \cup DOMAIN other |-> IF k \in DOMAIN other THEN other[k] ELSE d[k]]

\* a scene header for _find_scene_for_position: r'^## (.+?)$'
IsSceneHeader(line) == Len(line) >= 3 /\ line[1] = "##" /\ line[2] = " "

\* _find_scene_for_position: the name of the last header at or before the
\* line that is no PREMISE / SPEAKER NOTES / PRODUCTION NOTES header
NoScene == <<"None">>

FindSceneForPosition(text, n) ==
  LET headers == {h \in 1..n :
                    /\ IsSceneHeader(text[h])
                    /\ Strip(SubSeq(text[h], 3, Len(text[h]))) \notin
                         (special_sections \ {<<"TITLE">>})}
  IN IF headers = {} THEN NoScene
     ELSE Strip(SubSeq(text[Max(headers)], 3, Len(text[Max(headers)])))

\* re.finditer over one line, from index `from` on
RECURSIVE CuesOfLine(_, _, _)
CuesOfLine(text, n, from) ==
  LET line == text[n] IN
  IF SoundStarts(line, from) = {} THEN <<>>
  ELSE LET m == SoundMatch(line, Min(SoundStarts(line, from)))
           description == Strip(m.group)
       IN <<Update([ type        |-> "sound",
                     description |-> description,
                     category    |-> CategorizeSoundCue(description),
                     scene       |-> FindSceneForPosition(text, n),
                     position    |-> <<n, m.start>> ],
                   ParseModifiers(description))>>
            \o CuesOfLine(text, n, m.end + 1)

RECURSIVE CuesFrom(_, _)
CuesFrom(text, n) ==
  IF n > Len(text) THEN <<>> ELSE CuesOfLine(text, n, 1) \o CuesFrom(text, n + 1)

\* extract_sound_cues(script_content)
ExtractSoundCues(text) == CuesFrom(text, 1)


-----------------------------------------------------------------------------
(* build_script_structure as parse_script calls it: the whole call *)

RECURSIVE ScheduleElements(_, _, _, _, _, _)
ScheduleElements(elements, k, t, done, characters, p) ==
  IF k > Len(elements) THEN [elements |-> done, time |-> t]
  ELSE LET r == ScheduleElement(elements[k], t, characters, p) IN
       ScheduleElements(elements, k + 1, r.time, Append(done, r.element), characters, p)

RECURSIVE ScheduleScenes(_, _, _, _, _, _)
ScheduleScenes(scs, k, t, done, characters, p) ==
  IF k > Len(scs) THEN [timeline |-> done, time |-> t]
  ELSE LET r == ScheduleElements(scs[k].elements, 1, t, <<>>, characters, p) IN
       ScheduleScenes(scs, k + 1, r.time + p.pause_after_scene,
                      Append(done, SceneEntry(scs[k].name, t, r.time, r.elements)),
                      characters, p)

\* _count_total_words(script_structure)
CountTotalWords(tl) ==
  LET all == Flatten([i \in DOMAIN tl |-> tl[i].elements]) IN
  SumSeq([i \in DOMAIN all |->
            IF all[i].type = "dialogue" THEN WordCount(all[i].text) ELSE 0])

\* matched_elements: the sound elements of the timeline that hold the
\* category, in timeline order
MatchedElements(tl, category) ==
  SelectSeq(Flatten([i \in DOMAIN tl |-> tl[i].elements]),
            LAMBDA element : /\ element.type = "sound"
                             /\ "category" \in DOMAIN element
                             /\ element.category = category)

\* the bounds of the matched elements
CategoryBounds(treatment, matched) ==
  LET start_time == Min({matched[i].start_time : i \in DOMAIN matched})
      end_time == Max({matched[i].start_time + matched[i].duration : i \in DOMAIN matched})
  IN Update(treatment, [start_time |-> start_time, end_time |-> end_time,
                        duration |-> end_time - start_time,
                        affected_elements |-> matched])

\* treatment.get('narrative_linked', False)
NarrativeLinked(treatment) ==
  "narrative_linked" \in DOMAIN treatment /\ treatment.narrative_linked

\* one pass of the treatment loop with the narrative link honoured only
\* when no element matched the category
ProcessSpecialTreatment_CategoryBoundsKept(treatment, tl, estimated) ==
  IF ~("type" \in DOMAIN treatment /\ treatment.type = "sound_treatment")
    THEN treatment
  ELSE LET matched == IF "category" \in DOMAIN treatment
                        THEN MatchedElements(tl, treatment.category) ELSE <<>>
       IN IF matched # <<>> THEN CategoryBounds(treatment, matched)
          ELSE IF NarrativeLinked(treatment)
            THEN Update(treatment, [start_time |-> 0, end_time |-> estimated,
                                    duration |-> estimated])
          ELSE treatment

\* one pass of `for treatment in treatments:`
ProcessSpecialTreatment(treatment, tl, estimated) ==
  IF ~("type" \in DOMAIN treatment /\ treatment.type = "sound_treatment")
    THEN treatment
  ELSE LET matched == IF "category" \in DOMAIN treatment
                        THEN MatchedElements(tl, treatment.category) ELSE <<>>
           timed == IF matched # <<>> THEN CategoryBounds(treatment, matched)
                    ELSE treatment
       IN IF NarrativeLinked(timed)
            THEN Update(timed, [start_time |-> 0, end_time |-> estimated,
                                duration |-> estimated])
            ELSE timed

\* _process_special_treatments(script_structure): the treatments afterwards
ProcessSpecialTreatments(special_treatments, tl, estimated) ==
  [i \in DOMAIN special_treatments |->
     ProcessSpecialTreatment(special_treatments[i], tl, estimated)]

\* The structure build_script_structure returns for scenes whose elements
\* all get a numeric duration.  The sound_cues argument is not read.
BuildScriptStructure(metadata, characters, scs, cues, special_treatments, p) ==
  LET r == ScheduleScenes(scs, 1, 0, <<>>, characters, p) IN
  [ metadata           |-> metadata,
    characters         |-> characters,
    timeline           |-> r.timeline,
    special_treatments |-> ProcessSpecialTreatments(special_treatments, r.timeline,
                                                    r.time),
    estimated_duration |-> r.time,
    formatted_duration |-> <<r.time \div (60 * TicksPerSecond),
                             (r.time % (60 * TicksPerSecond)) \div TicksPerSecond>>,
    word_count         |-> CountTotalWords(r.timeline) ]

-----------------------------------------------------------------------------
(* character_extractor.py: CharacterExtractor *)

\* the places of a line where the atoms of `phrase` stand in a row
PhraseStarts(line, phrase) ==
  {i \in 1..(Len(line) - Len(phrase) + 1) :
     SubSeq(line, i, i + Len(phrase) - 1) = phrase}

\* the line holds `phrase` with nothing but blanks after it up to the line
\* end: r'<phrase>\s*\n' matches in the line
EndsLineWith(line, phrase) ==
  \E i \in PhraseStarts(line, phrase) :
    \A k \in (i + Len(phrase))..Len(line) : line[k] = " "

\* the lines a lazy group after r'<phrase>\s*\n' starts with: \s* runs over
\* the blank lines, so the group starts at the first line that is not blank
FirstNonBlankAfter(text, n) ==
  Min({m \in (n + 1)..(Len(text) + 1) : m = Len(text) + 1 \/ ~IsBlank(text[m])})

\* group 1 of r'## SPEAKER NOTES\s*\n(.*?)(?=^##|\Z)' (MULTILINE, DOTALL),
\* as its lines; <<"no match">> if the pattern does not match
SpeakerNotesOf(text) ==
  LET heads == {n \in DOMAIN text :
                  EndsLineWith(text[n], <<"##", " ", "SPEAKER", " ", "NOTES">>)}
  IN IF heads = {} THEN <<"no match">>
     ELSE LET m == FirstNonBlankAfter(text, Min(heads))
              stop == Min({j \in m..(Len(text) + 1) :
                             j = Len(text) + 1
                             \/ (text[j] # <<>> /\ text[j][1] = "##")})
          IN SubSeq(text, m, stop - 1)

\* group 1 of r'\*\*CHARACTERS:\*\*\s*\n(.*?)(?=\*\*Special Audio
\* Considerations|\Z)' in the speaker notes, as its lines, each stripped
\* (the code strips the group and then every line of it).  The two other
\* patterns of the code give no character: the second has the same prefix,
\* and the group of the third, r'CHARACTERS:(.*?)(?=\*\*|\Z)', ends before
\* the first "**", which every character entry starts with.
CharactersSectionOf(notes) ==
  LET heads == {n \in DOMAIN notes :
                  EndsLineWith(notes[n], <<"*", "*", "CHARACTERS", ":", "*", "*">>)}
      special == <<"*", "*", "Special", " ", "Audio", " ", "Considerations">>
  IN IF heads = {} THEN <<>>
     ELSE LET m == FirstNonBlankAfter(notes, Min(heads))
              stops == {j \in m..Len(notes) : PhraseStarts(notes[j], special) # {}}
          IN IF stops = {} THEN [k \in 1..(Len(notes) - m + 1) |-> Strip(notes[m + k - 1])]
             ELSE LET j == Min(stops)
                      cut == SubSeq(notes[j], 1, Min(PhraseStarts(notes[j], special)) - 1)
                  IN [k \in 1..(j - m + 1) |->
                        IF m + k - 1 = j THEN Strip(cut) ELSE Strip(notes[m + k - 1])]

\* re.match(r'\*\*([^*]+)\*\*\s*-\s*(.+)', line) on a stripped line:
\* <<name, description>>, both stripped, or <<>> if the line does not match
CharMatch(line) ==
  LET stars == {k \in 3..Len(line) : line[k] = "*"} IN
  IF ~(Len(line) >= 2 /\ line[1] = "*" /\ line[2] = "*") \/ stars = {} THEN <<>>
  ELSE LET k == Min(stars) IN
       IF k = 3 \/ k + 1 > Len(line) \/ line[k + 1] # "*" THEN <<>>
       ELSE LET d == SkipSpaces(line, k + 1) IN
            IF d > Len(line) \/ line[d] # "-" \/ d = Len(line) THEN <<>>
            ELSE << Strip(SubSeq(line, 3, k - 1)),
                    Strip(SubSeq(line, d + 1, Len(line))) >>

default_voice_traits ==
  [pitch |-> "medium", speed |-> "normal", accent |-> "neutral", age |-> "adult",
   gender |-> "neutral", qualities |-> <<>>]

quality_terms ==
  <<"raspy", "gruff", "rough", "smooth", "soft", "harsh", "breathy",
    "nasal", "melodic", "monotone", "robotic", "warm", "cold", "shaky",
    "confident", "authoritative", "gentle", "powerful", "weak", "timid",
    "crisp", "official", "commanding", "grumbly", "squeaky">>

\* the accents of the list that are one word ("new york" is two)
accents ==
  <<"british", "american", "australian", "scottish", "irish", "french",
    "german", "russian", "spanish", "italian", "japanese", "chinese",
    "indian", "southern", "midwestern", "new york", "boston", "texan",
    "coastal">>

effect_terms == <<"echo", "reverb", "distortion", "whisper", "modulated">>

\* re.search(r'\b(w1|w2|...)\b', description, re.IGNORECASE) matches.  The
\* words of a description are atoms, made of letters only.
HasWord(description, words) ==
  \E i \in DOMAIN description : LowerAtom(description[i]) \in words

\* r'\b<term>\b' for a term of one or of two words
HasTerm(description, term) ==
  IF term = "new york"
    THEN PhraseStarts(Lower(description), <<"new", " ", "york">>) # {}
    ELSE HasWord(description, {term})

IsWordAtom(a) == a \notin {" ", "*", ":", "(", ")", "]", "-", "##", "#", "[sound:"}

\* calculate_numerical_parameters(profile), in ten-thousandths
CalculateNumericalParameters(vp) ==
  LET has(q) == \E i \in DOMAIN vp.qualities : vp.qualities[i] = q
      pitch_shift == IF vp.pitch = "high" THEN 30000
                     ELSE IF vp.pitch = "low" THEN -30000 ELSE 0
      speed_factor == IF vp.speed = "fast" THEN 12000
                      ELSE IF vp.speed = "slow" THEN 8500 ELSE 10000
      formant_gender == IF vp.gender = "female" THEN 3000
                        ELSE IF vp.gender = "male" THEN -2000 ELSE 0
      tract_gender == IF vp.gender = "female" THEN 8500
                      ELSE IF vp.gender = "male" THEN 11500 ELSE 10000
      formant_age == IF vp.age = "young" THEN formant_gender + 2000
                     ELSE IF vp.age = "old" THEN formant_gender - 2000
                     ELSE formant_gender
      tract_age == IF vp.age = "young" THEN (tract_gender * 90) \div 100
                   ELSE IF vp.age = "old" THEN (tract_gender * 105) \div 100
                   ELSE tract_gender
      rough1 == IF has("raspy") \/ has("rough") \/ has("gruff") THEN 4000 ELSE 0
      soft == has("soft") \/ has("gentle")
      rough2 == IF soft THEN rough1 - 2000 ELSE rough1
      breath2 == IF soft THEN 3000 ELSE 0
      breath3 == IF has("breathy") THEN 5000 ELSE breath2
      formant_q == IF has("nasal") THEN formant_age + 1500 ELSE formant_age
      strong == has("powerful") \/ has("commanding")
      rough4 == IF strong THEN rough2 + 1000 ELSE rough2
      breath4 == IF strong THEN breath3 - 1000 ELSE breath3
      breath5 == IF has("timid") \/ has("weak") THEN breath4 + 2000 ELSE breath4
  IN [pitch_shift |-> pitch_shift,
      speed_factor |-> speed_factor,
      formant_shift |-> formant_q,
      breathiness |-> Max({0, Min({10000, breath5})}),
      roughness |-> Max({0, Min({10000, rough4})}),
      vocal_tract_length |-> tract_age]

\* build_voice_profile(description)
BuildVoiceProfile(description) ==
  LET gender == IF HasWord(description, {"he", "him", "his", "male", "man"}) THEN "male"
                ELSE IF HasWord(description, {"she", "her", "hers", "female", "woman"})
                  THEN "female"
                ELSE default_voice_traits.gender
      age == IF HasWord(description,
                  {"child", "young", "kid", "youth", "teenage", "teenager"}) THEN "young"
             ELSE IF HasWord(description, {"elder", "elderly", "old", "senior", "ancient"})
               THEN "old"
             ELSE default_voice_traits.age
      pitch == IF HasWord(description, {"high", "higher", "falsetto", "soprano"}) THEN "high"
               ELSE IF HasWord(description, {"low", "lower", "deep", "bass", "baritone"})
                 THEN "low"
               ELSE IF PhraseStarts(Lower(description), <<"mid", "-", "range">>) # {}
                       \/ HasWord(description, {"midrange", "medium"}) THEN "medium"
               ELSE default_voice_traits.pitch
      speed == IF HasWord(description, {"fast", "quick", "rapid", "swift"}) THEN "fast"
               ELSE IF HasWord(description,
                         {"slow", "deliberate", "measured", "calm", "relaxed"}) THEN "slow"
               ELSE default_voice_traits.speed
      qualities == SelectSeq(quality_terms, LAMBDA q : HasWord(description, {q}))
      \* r'\b(accent|dialect)\b.*\b([a-z]+)\b': the last word after the
      \* first "accent" or "dialect"
      marks == {i \in DOMAIN description :
                  LowerAtom(description[i]) \in {"accent", "dialect"}}
      later == IF marks = {} THEN {}
               ELSE {j \in DOMAIN description :
                       j > Min(marks) /\ IsWordAtom(description[j])}
      named == SelectSeq(accents, LAMBDA a : HasTerm(description, a))
      accent == IF later # {} THEN LowerAtom(description[Max(later)])
                ELSE IF named # <<>> THEN named[1]
                ELSE default_voice_traits.accent
      effects == SelectSeq(effect_terms, LAMBDA e : HasWord(description, {e}))
      p1 == [pitch |-> pitch, speed |-> speed, accent |-> accent, age |-> age,
             gender |-> gender, qualities |-> qualities]
      p2 == IF effects # <<>> THEN AddKey(p1, "effects", effects) ELSE p1
  IN AddKey(p2, "numerical_params", CalculateNumericalParameters(p2))

\* the entry extract_characters stores for a character
CharacterEntry(character_name, description) ==
  LET voice_profile == BuildVoiceProfile(description)
      a1 == [pitch |-> voice_profile.pitch, speed |-> voice_profile.speed,
             accent |-> voice_profile.accent, qualities |-> voice_profile.qualities]
      voice_attributes ==
        IF "effects" \in DOMAIN voice_profile
          THEN AddKey(a1, "effects", voice_profile.effects) ELSE a1
  IN [name |-> character_name, description |-> description,
      voice_profile |-> voice_profile, voice_attributes |-> voice_attributes]

\* the loop over the lines of the CHARACTERS subsection, from line k on
RECURSIVE CharactersFrom(_, _, _)
CharactersFrom(lines, k, characters) ==
  IF k > Len(lines) THEN characters
  ELSE LET g == CharMatch(lines[k]) IN
       CharactersFrom(lines, k + 1,
         IF g = <<>> THEN characters
         ELSE AddKey(characters, g[1], CharacterEntry(g[1], g[2])))

\* extract_characters(script_content), for speaker notes without a Special
\* Audio Considerations subsection (extract_special_audio_notes returns []
\* and no entry gets a special_audio list)
ExtractCharacters(text) ==
  LET notes == SpeakerNotesOf(text) IN
  IF notes = <<"no match">> THEN EmptyDict
  ELSE CharactersFrom(CharactersSectionOf(notes), 1, EmptyDict)

-----------------------------------------------------------------------------
(* validator.py: validate_script *)

\* enumerate(scene['elements']) over enumerate(script_data['scenes']): the
\* elements with their scene name and their index, which counts from 0
SceneElementRefs(scs) ==
  Flatten([s \in DOMAIN scs |->
             IF "elements" \in DOMAIN scs[s]
               THEN [e \in DOMAIN scs[s].elements |->
                       [scene |-> scs[s].name, element |-> e - 1,
                        el |-> scs[s].elements[e]]]
               ELSE <<>>])

\* the reference check stopping at the first reference it finds undefined
ReferenceErrors_FirstOnly(hits, kind) ==
  IF hits = <<>> THEN <<>>
  ELSE <<[error |-> kind, scene |-> hits[1].scene, element |-> hits[1].element,
          reference |-> IF kind = "undefined character"
                          THEN hits[1].el.character ELSE hits[1].el.effect]>>

\* one error entry per reference the check finds undefined
ReferenceErrors(hits, kind) ==
  [i \in DOMAIN hits |->
     [error |-> kind, scene |-> hits[i].scene, element |-> hits[i].element,
      reference |-> IF kind = "undefined character"
                      THEN hits[i].el.character ELSE hits[i].el.effect]]

\* validate_script without its character reference check
ValidateScript_NoCharacterCheck(script_data) ==
  LET has(key) == key \in DOMAIN script_data
      metadata_errors ==
        IF ~has("metadata") THEN <<[error |-> "Script is missing metadata section"]>>
        ELSE (IF "title" \notin DOMAIN script_data.metadata
                THEN <<[error |-> "Script is missing title in metadata"]>> ELSE <<>>)
             \o (IF "runtime" \notin DOMAIN script_data.metadata
                   THEN <<[error |-> "Script is missing runtime in metadata"]>> ELSE <<>>)
             \o (IF "premise" \notin DOMAIN script_data.metadata
                   THEN <<[error |-> "Script is missing premise in metadata"]>> ELSE <<>>)
      character_errors ==
        IF ~has("characters") \/ DOMAIN script_data.characters = {}
          THEN <<[error |-> "Script has no character definitions"]>> ELSE <<>>
      scene_errors ==
        IF ~has("scenes") \/ script_data.scenes = <<>>
          THEN <<[error |-> "Script has no scenes"]>> ELSE <<>>
      errors == metadata_errors \o character_errors \o scene_errors
  IN [is_valid |-> errors = <<>>, errors |-> errors]

\* validate_script(script_data): <<is_valid, errors>> as a record; an error
\* message is a record of its text (error) and the values it is formatted
\* with
ValidateScript(script_data) ==
  LET has(key) == key \in DOMAIN script_data
      metadata_errors ==
        IF ~has("metadata") THEN <<[error |-> "Script is missing metadata section"]>>
        ELSE (IF "title" \notin DOMAIN script_data.metadata
                THEN <<[error |-> "Script is missing title in metadata"]>> ELSE <<>>)
             \o (IF "runtime" \notin DOMAIN script_data.metadata
                   THEN <<[error |-> "Script is missing runtime in metadata"]>> ELSE <<>>)
             \o (IF "premise" \notin DOMAIN script_data.metadata
                   THEN <<[error |-> "Script is missing premise in metadata"]>> ELSE <<>>)
      character_errors ==
        IF ~has("characters") \/ DOMAIN script_data.characters = {}
          THEN <<[error |-> "Script has no character definitions"]>> ELSE <<>>
      scene_errors ==
        IF ~has("scenes") \/ script_data.scenes = <<>>
          THEN <<[error |-> "Script has no scenes"]>> ELSE <<>>
      undefined_characters ==
        IF has("characters") /\ has("scenes")
          THEN ReferenceErrors(SelectSeq(SceneElementRefs(script_data.scenes),
                 LAMBDA r : LET el == r.el IN
                             /\ "type" \in DOMAIN el /\ el.type = "dialogue"
                             /\ "character" \in DOMAIN el /\ el.character # <<>>
                             /\ el.character \notin DOMAIN script_data.characters),
                 "undefined character")
          ELSE <<>>
      undefined_effects ==
        IF has("effects") /\ has("scenes")
          THEN ReferenceErrors(SelectSeq(SceneElementRefs(script_data.scenes),
                 LAMBDA r : LET el == r.el IN
                             /\ "type" \in DOMAIN el /\ el.type = "dialogue"
                             /\ "effect" \in DOMAIN el
                             /\ el.effect \notin DOMAIN script_data.effects),
                 "undefined effect")
          ELSE <<>>
      errors == metadata_errors \o character_errors \o scene_errors
                  \o undefined_characters \o undefined_effects
  IN [is_valid |-> errors = <<>>, errors |-> errors]

-----------------------------------------------------------------------------
(* script_parser.py: ScriptParser.parse_script *)

\* The lines a script text is written from.
LinePool ==
  { <<>>,
    <<"##", " ", "SCENE_ONE">>,
    <<"##", " ", "SCENE_TWO">>,
    <<"[sound:", " ", "rain", "]">>,
    <<"[sound:", " ", "door", " ", "slams", "]">>,
    <<"*", "*", "John", ":", "*", "*", " ", "Hello", " ", "there">>,
    <<"*", "*", "John", "*", "*", ":", " ", "Hello", " ", "there">>,
    <<"*", "*", "Mary", "*", "*", " ", "(", "sad", ")", ":", " ", "Go">> }

\* The SPEAKER NOTES section a file ends with: none, or one with a
\* CHARACTERS subsection.  No file has a Special Audio Considerations
\* subsection or a PRODUCTION NOTES section.
NotesPool ==
  { <<>>,
    << <<"##", " ", "SPEAKER", " ", "NOTES">>,
       <<"*", "*", "CHARACTERS", ":", "*", "*">>,
       <<"*", "*", "John", "*", "*", " ", "-", " ", "deep", " ", "slow", " ", "voice">> >>,
    << <<"##", " ", "SPEAKER", " ", "NOTES">>,
       <<>>,
       <<"*", "*", "CHARACTERS", ":", "*", "*", " ">>,
       <<" ", "*", "*", "John", "*", "*", "-", "he", " ", "is", " ", "gruff">>,
       <<"*", "*", "Mary", "*", "*", " ", "-", " ", "she", " ", "speaks", " ", "fast">> >> }

\* the text of the script file
FileText == script \o speaker_notes

ParseInit ==
  /\ script = <<>>
  /\ pstate = "editing"
  /\ sound_cues = <<>>
  /\ parsed = EmptyDict
  /\ scene_out = <<>>
  /\ speaker_notes \in NotesPool
  /\ validation = EmptyDict
  /\ IdleExcept("parse")

\* the author adds a line to the script file
WriteLine ==
  /\ pstate = "editing"
  /\ Len(script) < MaxLines
  /\ \E line \in LinePool : script' = Append(script, line)
  /\ UNCHANGED <<pstate, sound_cues, parsed, scene_out, speaker_notes, validation>>
  /\ UNCHANGED notParseVars

\* parse_script(script_path) on the file as written.  The files have no
\* Special Audio Considerations subsection and no PRODUCTION NOTES section,
\* for which extract_special_sound_treatments returns [] and
\* _extract_production_notes {}.
ParseScript ==
  /\ pstate = "editing"
  /\ LET metadata == ExtractMetadata(FileText)
         characters == ExtractCharacters(FileText)
         scs == ExtractScenes(FileText)
         cues == ExtractSoundCues(FileText)
         special_treatments == <<>>
         production_notes == EmptyDict
         structure == BuildScriptStructure(metadata, characters, scs, cues,
                                           special_treatments, DefaultParams)
     IN /\ sound_cues' = cues
        /\ parsed' = AddKey(AddKey(structure, "production_notes", production_notes),
                            "scenes", scs)
  /\ pstate' = "parsed"
  /\ UNCHANGED <<script, scene_out, speaker_notes, validation>>
  /\ UNCHANGED notParseVars

\* MarkdownParser.parse_scene(scene_content) on the lines as scene content
CallParseScene ==
  /\ pstate = "editing"
  /\ scene_out' = ParseScene(script)
  /\ pstate' = "scene_parsed"
  /\ UNCHANGED <<script, sound_cues, parsed, speaker_notes, validation>>
  /\ UNCHANGED notParseVars

\* validate_script(script_data) on the structure parse_script returned
CallValidateScript ==
  /\ pstate = "parsed"
  /\ validation' = ValidateScript(parsed)
  /\ pstate' = "validated"
  /\ UNCHANGED <<script, sound_cues, parsed, scene_out, speaker_notes>>
  /\ UNCHANGED notParseVars

ParseNext ==
  \/ WriteLine
  \/ ParseScript
  \/ CallParseScene
  \/ CallValidateScript

SpecParse == ParseInit /\ [][ParseNext]_vars


-----------------------------------------------------------------------------
(* Properties of the canonical parser *)

HeadingLines == {h \in DOMAIN script : IsHeading(script[h])}

SceneHeadings ==
  {h \in HeadingLines : HeadingText(script[h]) \notin special_sections}

\* the line of the next second-level heading after h (the end of the text
\* if there is none)
NextHeading(h) ==
  Min({n \in (h + 1)..(Len(script) + 1) : n = Len(script) + 1 \/ IsHeading(script[n])})

DistinctHeadings ==
  \A h1, h2 \in HeadingLines :
    HeadingText(script[h1]) = HeadingText(script[h2]) => h1 = h2

\* C2 as claimed: in the parsed structure of a script with distinct
\* headings, the scene of every scene heading holds, in document order, one
\* element for every sound-cue line and every dialogue line (every line
\* parse_scene turns into an element) between that heading and the next
\* second-level heading.
C2_SceneHoldsAllLinesOfSection ==
  (pstate = "parsed" /\ DistinctHeadings) =>
    \A h \in SceneHeadings :
      \E k \in DOMAIN parsed.scenes :
        /\ parsed.scenes[k].name = HeadingText(script[h])
        /\ parsed.scenes[k].elements =
             ParseScene(SubSeq(script, h + 1, NextHeading(h) - 1))

\* the documented dialogue form  **<Character>:** <text>
IsDocumentedDialogue(line) ==
  /\ Len(line) >= 8
  /\ line[1] = "*" /\ line[2] = "*"
  /\ line[3] \notin {"*", ":", " ", "(", ")", "]", "##", "[sound:"}
  /\ line[4] = ":" /\ line[5] = "*" /\ line[6] = "*" /\ line[7] = " "
  /\ \A i \in 8..Len(line) : line[i] \notin {"*", ":", "(", ")", "]", "##", "[sound:"}
  /\ line[8] # " " /\ line[Len(line)] # " "

\* C3 as claimed: parse_scene turns every line written in the documented
\* form **<Character>:** <text> into exactly one Dialogue element with that
\* character and that text.
C3_DocumentedDialogueFormParsed ==
  (pstate = "scene_parsed" /\ \A k \in DOMAIN script : IsDocumentedDialogue(script[k]))
  => scene_out =
       [k \in DOMAIN script |->
          [type |-> "dialogue", character |-> <<script[k][3]>>,
           text |-> SubSeq(script[k], 8, Len(script[k]))]]

\* the sound entries a returned structure holds: the elements of its
\* timeline and of its scenes, and its sound_cues if it has that key
StructureSoundEntries(st) ==
  LET tl == Flatten([i \in DOMAIN st.timeline |-> st.timeline[i].elements])
      sc == Flatten([i \in DOMAIN st.scenes |-> st.scenes[i].elements])
      cu == IF "sound_cues" \in DOMAIN st THEN st.sound_cues ELSE <<>>
      all == tl \o sc \o cu
  IN {all[i] : i \in {j \in DOMAIN all : all[j].type = "sound"}}

\* C9 as claimed: for every [sound: ...] occurrence of the script text the
\* structure parse_script returns holds an entry that carries the cue's
\* category.
C9_StructureHoldsCategorizedCues ==
  pstate = "parsed" =>
    \A i \in DOMAIN sound_cues :
      \E e \in StructureSoundEntries(parsed) :
        /\ e.description = sound_cues[i].description
        /\ "category" \in DOMAIN e
        /\ e.category = sound_cues[i].category

\* the dialogue elements of the parsed scenes whose character has no entry
\* in the parsed character table
UndefinedCharacterRefs(st) ==
  LET refs == SceneElementRefs(st.scenes) IN
  {refs[i] : i \in {j \in DOMAIN refs :
                      /\ refs[j].el.type = "dialogue"
                      /\ refs[j].el.character \notin DOMAIN st.characters}}

\* C11: parse_script on a script whose dialogue names a character without a
\* definition returns a structure (no exception), and validate_script on
\* that structure returns is_valid = False with an error list that is not
\* empty and that names every such reference.
C11_UndefinedCharacterParsesButFailsValidation ==
  /\ pstate \in {"parsed", "validated"} =>
       {"metadata", "characters", "scenes", "timeline"} \subseteq DOMAIN parsed
  /\ pstate = "validated" =>
       \A r \in UndefinedCharacterRefs(parsed) :
         /\ validation.is_valid = FALSE
         /\ validation.errors # <<>>
         /\ \E i \in DOMAIN validation.errors :
              validation.errors[i] =
                [error |-> "undefined character", scene |-> r.scene,
                 element |-> r.element, reference |-> r.el.character]

\* a validated script that defines John and whose scene has a line of Mary
C11_Witness ==
  /\ pstate = "validated"
  /\ <<"John">> \in DOMAIN parsed.characters
  /\ \E r \in UndefinedCharacterRefs(parsed) : r.el.character = <<"Mary">>
  /\ validation.is_valid = FALSE
  /\ \E i \in DOMAIN validation.errors :
       validation.errors[i].error = "undefined character"

-----------------------------------------------------------------------------
(* Voice profile derivation: voice_generator/voice_profiles.py              *)
(*                                                                         *)
(* Numeric voice parameters are held in hundredths (speed 0.85 is 85,      *)
(* pitch -6 semitones is -600), added and compared exactly.                *)

VOICE_TRAIT_MAPPINGS ==
     "deep" :> [pitch |-> -600, pitch_range |-> 70, formant_shift |-> -30]
  @@ "low" :> [pitch |-> -400, pitch_range |-> 80, formant_shift |-> -20]
  @@ "baritone" :> [pitch |-> -300, formant_shift |-> -15]
  @@ "bass" :> [pitch |-> -500, pitch_range |-> 70, formant_shift |-> -25]
  @@ "mid-range" :> [pitch |-> 0, pitch_range |-> 100]
  @@ "medium" :> [pitch |-> 0, pitch_range |-> 100]
  @@ "high" :> [pitch |-> 300, pitch_range |-> 120, formant_shift |-> 20]
  @@ "higher" :> [pitch |-> 400, pitch_range |-> 130, formant_shift |-> 30]
  @@ "soprano" :> [pitch |-> 600, pitch_range |-> 140, formant_shift |-> 40]
  @@ "slow" :> [speed |-> 85]
  @@ "deliberate" :> [speed |-> 90]
  @@ "measured" :> [speed |-> 95]
  @@ "normal" :> [speed |-> 100]
  @@ "fast" :> [speed |-> 115]
  @@ "fast-talking" :> [speed |-> 120]
  @@ "rapid" :> [speed |-> 125]
  @@ "gravelly" :> [effects |-> [distortion |-> [amount |-> 10]]]
  @@ "rough" :> [effects |-> [distortion |-> [amount |-> 8]]]
  @@ "smooth" :> [effects |-> [lowpass |-> [cutoff |-> 80]]]
  @@ "raspy" :> [effects |-> [distortion |-> [amount |-> 15], highpass |-> [cutoff |-> 30]]]
  @@ "breathy" :> [effects |-> [noise |-> [amount |-> 5], lowpass |-> [cutoff |-> 70]]]
  @@ "warm" :> [formant_shift |-> 10, effects |-> [lowpass |-> [cutoff |-> 75]]]
  @@ "bright" :> [formant_shift |-> 20, effects |-> [highpass |-> [cutoff |-> 20]]]
  @@ "dark" :> [formant_shift |-> -20, effects |-> [lowpass |-> [cutoff |-> 60]]]
  @@ "resonant" :> [effects |-> [reverb |-> [room_size |-> 30, damping |-> 50]]]
  @@ "melodic" :> [pitch_range |-> 130]
  @@ "monotone" :> [pitch_range |-> 60]
  @@ "confident" :> [volume |-> 120, speed |-> 105]
  @@ "nervous" :> [speed |-> 110, pitch_range |-> 120, effects |-> [tremolo |-> [depth |-> 5, rate |-> 400]]]
  @@ "shy" :> [volume |-> 90, speed |-> 95]
  @@ "authoritative" :> [volume |-> 115, pitch |-> -200]
  @@ "friendly" :> [pitch_range |-> 110, speed |-> 105]
  @@ "threatening" :> [pitch |-> -200, effects |-> [distortion |-> [amount |-> 5]]]
  @@ "gentle" :> [volume |-> 90, speed |-> 95]
  @@ "harsh" :> [volume |-> 110, effects |-> [highpass |-> [cutoff |-> 30]]]
  @@ "sarcastic" :> [pitch_range |-> 130]
  @@ "jovial" :> [pitch |-> 100, pitch_range |-> 120, speed |-> 110]
  @@ "serious" :> [pitch |-> -100, pitch_range |-> 80, speed |-> 95]
  @@ "anxious" :> [speed |-> 110, pitch_range |-> 115, effects |-> [tremolo |-> [depth |-> 4, rate |-> 500]]]
  @@ "sad" :> [pitch |-> -100, speed |-> 90, pitch_range |-> 80]
  @@ "happy" :> [pitch |-> 100, speed |-> 105, pitch_range |-> 110]
  @@ "angry" :> [pitch |-> -100, volume |-> 120, effects |-> [distortion |-> [amount |-> 5]]]
  @@ "cheerful" :> [pitch |-> 200, speed |-> 110]
  @@ "depressed" :> [pitch |-> -200, speed |-> 85, pitch_range |-> 70]
  @@ "excited" :> [pitch |-> 200, speed |-> 115, pitch_range |-> 130, volume |-> 115]
  @@ "bored" :> [pitch |-> -100, speed |-> 90, pitch_range |-> 70]
  @@ "child" :> [pitch |-> 800, formant_shift |-> 50, pitch_range |-> 130]
  @@ "young" :> [pitch |-> 300, formant_shift |-> 20, speed |-> 105]
  @@ "teenage" :> [pitch |-> 200, formant_shift |-> 10, speed |-> 110]
  @@ "middle-aged" :> [pitch |-> 0, formant_shift |-> 0]
  @@ "old" :> [pitch |-> -200, formant_shift |-> -10, speed |-> 90]
  @@ "elderly" :> [pitch |-> -300, formant_shift |-> -15, speed |-> 85]
  @@ "ancient" :> [pitch |-> -400, formant_shift |-> -20, speed |-> 80]
  @@ "rural" :> [effects |-> [reverb |-> [room_size |-> 20, damping |-> 70]]]
  @@ "urban" :> [speed |-> 105]
  @@ "southern" :> [pitch |-> -100, speed |-> 90]
  @@ "northern" :> [pitch |-> 100, speed |-> 105]
  @@ "western" :> [pitch |-> -100]
  @@ "eastern" :> [pitch |-> 100]
  @@ "british" :> [effects |-> [eq |-> [high |-> 120]]]
  @@ "american" :> EmptyDict
  @@ "city-accent" :> [speed |-> 110, pitch_range |-> 110]
  @@ "country-accent" :> [speed |-> 95, pitch |-> -100]
  @@ "local-accent" :> [speed |-> 97]
  @@ "whispering" :> [volume |-> 70, effects |-> [noise |-> [amount |-> 10], lowpass |-> [cutoff |-> 60]]]
  @@ "shouting" :> [volume |-> 130, effects |-> [distortion |-> [amount |-> 5]]]
  @@ "nasal" :> [formant_shift |-> 30, effects |-> [bandpass |-> [center |-> 60, q |-> 50]]]
  @@ "hoarse" :> [effects |-> [distortion |-> [amount |-> 12], lowpass |-> [cutoff |-> 70]]]
  @@ "trembling" :> [effects |-> [tremolo |-> [depth |-> 10, rate |-> 600]]]
  @@ "robotic" :> [effects |-> [vocoder |-> [bands |-> 1600]]]
  @@ "distant" :> [volume |-> 80, effects |-> [reverb |-> [room_size |-> 70, damping |-> 50]]]
  @@ "close" :> [volume |-> 110]
  @@ "ethereal" :> [effects |-> [reverb |-> [room_size |-> 90, damping |-> 30]]]
  @@ "narrator" :> [clarity |-> 120]
  @@ "seductive" :> [speed |-> 90, pitch_range |-> 110, volume |-> 90]
  @@ "commanding" :> [volume |-> 120, pitch |-> -200]
  @@ "timid" :> [volume |-> 80, speed |-> 95]
  @@ "stuttering" :> [effects |-> [stutter |-> [amount |-> 20]]]
  @@ "mysterious" :> [effects |-> [reverb |-> [room_size |-> 50, damping |-> 60]]]
  @@ "ominous" :> [pitch |-> -300, speed |-> 90, effects |-> [reverb |-> [room_size |-> 60]]]
  @@ "frightened" :> [speed |-> 110, pitch |-> 200, effects |-> [tremolo |-> [depth |-> 8, rate |-> 700]]]
  @@ "wise" :> [pitch |-> -100, speed |-> 90]
  @@ "manipulative" :> [pitch_range |-> 120]
  @@ "observant" :> [clarity |-> 110]
  @@ "slightly-ominous" :> [pitch |-> -100, effects |-> [reverb |-> [room_size |-> 30]]]
  @@ "controlling" :> [volume |-> 110, pitch |-> -100]
  @@ "weathered" :> [effects |-> [distortion |-> [amount |-> 6]]]
  @@ "absent" :> [effects |-> [reverb |-> [room_size |-> 40]]]

BASE_VOICE_PROFILES ==
     "male_deep" :>
       [name |-> "Male Deep", gender |-> "male", pitch |-> -400,
        pitch_range |-> 80, formant_shift |-> -20, speed |-> 100, volume |-> 100,
        clarity |-> 100, speaker_id |-> "male_deep", effects |-> EmptyDict]
  @@ "male_medium" :>
       [name |-> "Male Medium", gender |-> "male", pitch |-> -200,
        pitch_range |-> 90, formant_shift |-> -10, speed |-> 100, volume |-> 100,
        clarity |-> 100, speaker_id |-> "male_medium", effects |-> EmptyDict]
  @@ "male_light" :>
       [name |-> "Male Light", gender |-> "male", pitch |-> 0,
        pitch_range |-> 100, formant_shift |-> 0, speed |-> 100, volume |-> 100,
        clarity |-> 100, speaker_id |-> "male_light", effects |-> EmptyDict]
  @@ "female_deep" :>
       [name |-> "Female Deep", gender |-> "female", pitch |-> 0,
        pitch_range |-> 100, formant_shift |-> 0, speed |-> 100, volume |-> 100,
        clarity |-> 100, speaker_id |-> "female_deep", effects |-> EmptyDict]
  @@ "female_medium" :>
       [name |-> "Female Medium", gender |-> "female", pitch |-> 200,
        pitch_range |-> 110, formant_shift |-> 10, speed |-> 100, volume |-> 100,
        clarity |-> 100, speaker_id |-> "female_medium", effects |-> EmptyDict]
  @@ "female_light" :>
       [name |-> "Female Light", gender |-> "female", pitch |-> 400,
        pitch_range |-> 120, formant_shift |-> 20, speed |-> 100, volume |-> 100,
        clarity |-> 100, speaker_id |-> "female_light", effects |-> EmptyDict]
  @@ "neutral" :>
       [name |-> "Neutral", gender |-> "neutral", pitch |-> 0,
        pitch_range |-> 100, formant_shift |-> 0, speed |-> 100, volume |-> 100,
        clarity |-> 100, speaker_id |-> "neutral", effects |-> EmptyDict]
  @@ "child" :>
       [name |-> "Child", gender |-> "neutral", pitch |-> 600,
        pitch_range |-> 130, formant_shift |-> 40, speed |-> 110, volume |-> 100,
        clarity |-> 100, speaker_id |-> "child", effects |-> EmptyDict]
  @@ "elder" :>
       [name |-> "Elder", gender |-> "neutral", pitch |-> -300,
        pitch_range |-> 80, formant_shift |-> -15, speed |-> 90, volume |-> 90,
        clarity |-> 90, speaker_id |-> "elder", effects |-> [tremolo |-> [depth |-> 3, rate |-> 500]]]

\* str.lower() on the trait tokens used here
LowerTrait(trait) ==
  CASE trait = "Slow" -> "slow"
    [] OTHER -> trait

\* the trait tokens the lists are written from: known and unknown ("male" has
\* no mapping), slow and fast, repeated or conflicting once listed twice
TraitPool ==
  {"male", "deep", "slow", "Slow", "fast", "gravelly", "child", "narrator",
   "confident"}

\* the parameters dict voice_traits_to_parameters starts from
DefaultParameters ==
  [pitch |-> 0, pitch_range |-> 100, formant_shift |-> 0, speed |-> 100,
   volume |-> 100, clarity |-> 100, speaker_id |-> "None", gender |-> "neutral",
   effects |-> EmptyDict]

\* isinstance(value, (int, float)) and param in parameters and
\* isinstance(parameters[param], (int, float))
IsNumericParameter(param) ==
  param \in {"pitch", "pitch_range", "formant_shift", "speed", "volume", "clarity"}

\* the loop over trait_params.items() for one trait: effects are merged by
\* effect name, numeric values are added, any other value replaces
ApplyTrait(ps, trait) ==
  LET t == LowerTrait(trait)
  IN IF t \notin DOMAIN VOICE_TRAIT_MAPPINGS THEN ps
     ELSE LET trait_params == VOICE_TRAIT_MAPPINGS[t]
          IN [param \in DOMAIN ps \cup DOMAIN trait_params |->
                IF param \notin DOMAIN trait_params THEN ps[param]
                ELSE IF param = "effects"
                  THEN Update(ps.effects, trait_params.effects)
                ELSE IF IsNumericParameter(param) /\ param \in DOMAIN ps
                  THEN ps[param] + trait_params[param]
                ELSE trait_params[param]]

RECURSIVE ApplyTraits(_, _, _)
ApplyTraits(ps, traits, k) ==
  IF k > Len(traits) THEN ps
  ELSE ApplyTraits(ApplyTrait(ps, traits[k]), traits, k + 1)

\* "Infer gender if not explicitly set"
InferGender(ps) ==
  IF ps.gender # "neutral" THEN ps
  ELSE IF ps.pitch < -200 \/ ps.formant_shift < -10
    THEN [ps EXCEPT !.gender = "male"]
  ELSE IF ps.pitch > 200 \/ ps.formant_shift > 10
    THEN [ps EXCEPT !.gender = "female"]
  ELSE ps

\* "Infer speaker_id if not set based on gender and pitch"
InferSpeakerId(ps) ==
  IF ps.speaker_id # "None" THEN ps
  ELSE [ps EXCEPT !.speaker_id =
          IF ps.gender = "male"
            THEN (IF ps.pitch < -300 THEN "male_deep"
                  ELSE IF ps.pitch < 0 THEN "male_medium"
                  ELSE "male_light")
          ELSE IF ps.gender = "female"
            THEN (IF ps.pitch < 100 THEN "female_deep"
                  ELSE IF ps.pitch < 300 THEN "female_medium"
                  ELSE "female_light")
          ELSE "neutral"]

\* max(lo, min(hi, x))
Clamp(lo, hi, x) == Max({lo, Min({hi, x})})

\* ClampParameters without the clamp of speed
ClampParameters_SpeedUnclamped(ps) ==
  [ps EXCEPT !.pitch = Clamp(-1200, 1200, @),
             !.pitch_range = Clamp(60, 150, @),
             !.formant_shift = Clamp(-50, 50, @),
             !.volume = Clamp(60, 130, @),
             !.clarity = Clamp(70, 130, @)]

\* "Ensure parameters are within reasonable ranges"
ClampParameters(ps) ==
  [ps EXCEPT !.pitch = Clamp(-1200, 1200, @),
             !.pitch_range = Clamp(60, 150, @),
             !.formant_shift = Clamp(-50, 50, @),
             !.speed = Clamp(70, 130, @),
             !.volume = Clamp(60, 130, @),
             !.clarity = Clamp(70, 130, @)]

\* the parameters before the final clamps
UnclampedParameters(traits) ==
  InferSpeakerId(InferGender(ApplyTraits(DefaultParameters, traits, 1)))

VoiceTraitsToParameters(traits) == ClampParameters(UnclampedParameters(traits))

\* `x in voice_traits` (no lower-casing)
InList(x, traits) == \E i \in DOMAIN traits : traits[i] = x

gender_related_traits ==
  {"male", "female", "man", "woman", "boy", "girl", "masculine", "feminine"}

age_related_traits ==
  {"child", "young", "teenage", "middle-aged", "old", "elderly", "ancient"}

male_indicators == {"deep", "baritone", "gravelly", "rough"}

female_indicators == {"soprano", "high", "light", "breathy"}

\* the base a gender trait selects
GenderedBase(gender, traits) ==
  IF InList("deep", traits) \/ InList("low", traits) THEN gender \o "_deep"
  ELSE IF InList("high", traits) \/ InList("light", traits) THEN gender \o "_light"
  ELSE gender \o "_medium"

\* "Check for gender traits": the loop from trait k on
RECURSIVE GenderLoop(_, _, _)
GenderLoop(traits, k, base_profile) ==
  IF k > Len(traits) THEN base_profile
  ELSE LET trait_lower == LowerTrait(traits[k])
       IN GenderLoop(traits, k + 1,
            IF trait_lower \in {"male", "man", "boy", "masculine"}
              THEN GenderedBase("male", traits)
            ELSE IF trait_lower \in {"female", "woman", "girl", "feminine"}
              THEN GenderedBase("female", traits)
            ELSE base_profile)

\* "If no explicit gender, infer from other traits"
IndicatorBase(traits, base_profile) ==
  LET male_count == Count(traits, LAMBDA t : LowerTrait(t) \in male_indicators)
      female_count == Count(traits, LAMBDA t : LowerTrait(t) \in female_indicators)
  IN IF male_count > female_count THEN "male_medium"
     ELSE IF female_count > male_count THEN "female_medium"
     ELSE base_profile

\* "Check for age traits": the loop from trait k on
RECURSIVE AgeLoop(_, _, _)
AgeLoop(traits, k, base_profile) ==
  IF k > Len(traits) THEN base_profile
  ELSE LET trait_lower == LowerTrait(traits[k])
       IN AgeLoop(traits, k + 1,
            IF trait_lower = "child" THEN "child"
            ELSE IF trait_lower \in {"elderly", "ancient", "old"} THEN "elder"
            ELSE base_profile)

\* the base profile generate_character_voice_profile settles on
BaseProfileOf(traits) ==
  LET gender_match ==
        \E i \in DOMAIN traits : LowerTrait(traits[i]) \in gender_related_traits
      gendered == GenderLoop(traits, 1, "neutral")
      inferred == IF gender_match THEN gendered ELSE IndicatorBase(traits, gendered)
  IN AgeLoop(traits, 1, inferred)

\* create_voice_profile on the dict objects `heap` (the effects dicts of the
\* base profiles).  dict.copy() is shallow: the copy's effects entry is the
\* base's own effects dict, written here as a reference [ref |-> base]; the
\* merge of the trait effects writes into that dict.  Returns the profile
\* and the dict objects after the call.
CreateVoiceProfile(base_profile_type, traits, heap) ==
  LET b == IF base_profile_type \in DOMAIN BASE_VOICE_PROFILES
             THEN base_profile_type ELSE "neutral"
      copied == [BASE_VOICE_PROFILES[b] EXCEPT !.effects = [ref |-> b]]
  IN IF traits = <<>> THEN [profile |-> copied, heap |-> heap]
     ELSE LET trait_params == VoiceTraitsToParameters(traits)
          IN [profile |->
                [key \in DOMAIN copied \cup DOMAIN trait_params |->
                   IF key = "effects" THEN copied.effects
                   ELSE IF key \in DOMAIN trait_params THEN trait_params[key]
                   ELSE copied[key]],
              heap |-> [heap EXCEPT ![b] = Update(@, trait_params.effects)]]

GenerateCharacterVoiceProfile(traits, heap) ==
  CreateVoiceProfile(BaseProfileOf(traits), traits, heap)

\* a profile as its holder reads it: the effects reference followed
Resolved(prof, heap) == [prof EXCEPT !.effects = heap[prof.effects.ref]]

\* the effects dicts of the base profiles when the module is loaded
InitialBaseEffects ==
  [b \in DOMAIN BASE_VOICE_PROFILES |-> BASE_VOICE_PROFILES[b].effects]

VoiceInit ==
  /\ voice_traits = <<>>
  /\ vstate = "traits"
  /\ parameters = EmptyDict
  /\ profile = EmptyDict
  /\ base_effects = InitialBaseEffects
  /\ IdleExcept("voice")

\* one more token of the trait list of the next character
AddTrait ==
  /\ vstate = "traits"
  /\ Len(voice_traits) < MaxTraits
  /\ \E trait \in TraitPool : voice_traits' = Append(voice_traits, trait)
  /\ UNCHANGED <<vstate, parameters, profile, base_effects>>
  /\ UNCHANGED notVoiceVars

\* voice_traits_to_parameters(voice_traits)
CallVoiceTraitsToParameters ==
  /\ vstate = "traits"
  /\ parameters' = VoiceTraitsToParameters(voice_traits)
  /\ vstate' = "parameters"
  /\ UNCHANGED <<voice_traits, profile, base_effects>>
  /\ UNCHANGED notVoiceVars

\* generate_character_voice_profile(voice_traits)
CallGenerateCharacterVoiceProfile ==
  /\ vstate = "traits"
  /\ LET out == GenerateCharacterVoiceProfile(voice_traits, base_effects)
     IN /\ profile' = out.profile
        /\ base_effects' = out.heap
  /\ vstate' = "profile"
  /\ UNCHANGED <<voice_traits, parameters>>
  /\ UNCHANGED notVoiceVars

\* the caller goes on to the next character, in the same process
NextCharacter ==
  /\ vstate \in {"parameters", "profile"}
  /\ voice_traits' = <<>>
  /\ parameters' = EmptyDict
  /\ profile' = EmptyDict
  /\ vstate' = "traits"
  /\ UNCHANGED base_effects
  /\ UNCHANGED notVoiceVars

VoiceNext ==
  \/ AddTrait
  \/ CallVoiceTraitsToParameters
  \/ CallGenerateCharacterVoiceProfile
  \/ NextCharacter

SpecVoice == VoiceInit /\ [][VoiceNext]_vars

\* C6 as claimed: the profile generate_character_voice_profile returns for
\* a trait list (numeric fields, gender, speaker identifier, effects map) is
\* the one a process that derived nothing before returns for that list.
C6_DerivationIsStateless ==
  vstate = "profile" =>
    LET fresh == GenerateCharacterVoiceProfile(voice_traits, InitialBaseEffects)
    IN Resolved(profile, base_effects) = Resolved(fresh.profile, fresh.heap)

InRange(lo, hi, x) == lo <= x /\ x <= hi

\* C7: whatever the trait list, the output of voice_traits_to_parameters has
\* pitch in [-12, 12], pitch_range in [0.6, 1.5], formant_shift in
\* [-0.5, 0.5], speed in [0.7, 1.3], volume in [0.6, 1.3] and clarity in
\* [0.7, 1.3].
C7_ParametersWithinClamps ==
  vstate = "parameters" =>
    /\ InRange(-1200, 1200, parameters.pitch)
    /\ InRange(60, 150, parameters.pitch_range)
    /\ InRange(-50, 50, parameters.formant_shift)
    /\ InRange(70, 130, parameters.speed)
    /\ InRange(60, 130, parameters.volume)
    /\ InRange(70, 130, parameters.clarity)

\* a repeated trait has driven pitch, pitch_range and formant_shift out of
\* their ranges before the clamps, and the output is back at the limits
C7_Witness ==
  /\ vstate = "parameters"
  /\ \E i, j \in DOMAIN voice_traits : i # j /\ voice_traits[i] = voice_traits[j]
  /\ UnclampedParameters(voice_traits).pitch > 1200
  /\ UnclampedParameters(voice_traits).pitch_range > 150
  /\ UnclampedParameters(voice_traits).formant_shift > 50
  /\ parameters.pitch = 1200
  /\ parameters.pitch_range = 150
  /\ parameters.formant_shift = 50

\* the traits of a list that have a speed entry in VOICE_TRAIT_MAPPINGS
SpeedTraits(traits) ==
  {LowerTrait(traits[i]) : i \in {j \in DOMAIN traits :
      /\ LowerTrait(traits[j]) \in DOMAIN VOICE_TRAIT_MAPPINGS
      /\ "speed" \in DOMAIN VOICE_TRAIT_MAPPINGS[LowerTrait(traits[j])]}}

AllSlow(traits) ==
  /\ SpeedTraits(traits) # {}
  /\ \A t \in SpeedTraits(traits) : VOICE_TRAIT_MAPPINGS[t].speed < 100

AllFast(traits) ==
  /\ SpeedTraits(traits) # {}
  /\ \A t \in SpeedTraits(traits) : VOICE_TRAIT_MAPPINGS[t].speed > 100

\* C8 as claimed: a trait list whose speed-affecting traits all denote
\* slowness gets a speed strictly below 1.0, one whose speed-affecting
\* traits all denote fastness a speed strictly above 1.0, from
\* voice_traits_to_parameters and from generate_character_voice_profile.
C8_SlowBelowOneFastAboveOne ==
  LET speed == IF vstate = "parameters" THEN parameters.speed ELSE profile.speed
  IN vstate \in {"parameters", "profile"} =>
       /\ AllSlow(voice_traits) => speed < 100
       /\ AllFast(voice_traits) => speed > 100

-----------------------------------------------------------------------------
(* Batch processing: script_parser/utils.py, batch_process_scripts          *)

\* the file names of input_dir
ScriptPaths == {"a.md", "b.md", "c.md", "d.md"}

\* what a file is like: parse_script returns and its output can be written,
\* parse_script raises, or writing its output raises
Outcomes == {"ok", "parse_raises", "output_raises"}

\* the format argument; "xml" is none of the three the function knows, and
\* then no output is written
Formats == {"json", "html", "stats", "xml"}

\* the try block raises for this file
Raises(file, fmt) ==
  \/ file.outcome = "parse_raises"
  \/ file.outcome = "output_raises" /\ fmt \in {"json", "html", "stats"}

\* str(e) of the exception a file's processing raises
ErrorText(outcome) ==
  IF outcome = "parse_raises" THEN "cannot parse" ELSE "cannot write"

BatchInit ==
  /\ script_files = <<>>
  /\ format \in Formats
  /\ batch_pos = 0
  /\ results = EmptyDict
  /\ batch_state = "directory"
  /\ IdleExcept("batch")

\* one more *.md file in input_dir before the call
PutFile ==
  /\ batch_state = "directory"
  /\ Len(script_files) < MaxFiles
  /\ \E path \in ScriptPaths, outcome \in Outcomes :
       /\ \A i \in DOMAIN script_files : script_files[i].path # path
       /\ script_files' = Append(script_files, [path |-> path, outcome |-> outcome])
  /\ UNCHANGED <<format, batch_pos, results, batch_state>>
  /\ UNCHANGED notBatchVars

\* the call up to the loop: results initialised, the files listed
BatchStart ==
  /\ batch_state = "directory"
  /\ results' = [success |-> <<>>, failed |-> <<>>]
  /\ batch_pos' = 1
  /\ batch_state' = "loop"
  /\ UNCHANGED <<script_files, format>>
  /\ UNCHANGED notBatchVars

\* ProcessFile with a failure ending the loop
ProcessFile_AbortOnFailure ==
  /\ batch_state = "loop"
  /\ batch_pos <= Len(script_files)
  /\ LET file == script_files[batch_pos]
     IN IF ~Raises(file, format)
          THEN /\ results' = [results EXCEPT !.success = Append(@, file.path)]
               /\ batch_pos' = batch_pos + 1
          ELSE /\ results' = [results EXCEPT !.failed =
                    Append(@, [path |-> file.path, error |-> ErrorText(file.outcome)])]
               /\ batch_pos' = Len(script_files) + 1
  /\ UNCHANGED <<script_files, format, batch_state>>
  /\ UNCHANGED notBatchVars

\* one pass of the loop body: the try block and its except clause
ProcessFile ==
  /\ batch_state = "loop"
  /\ batch_pos <= Len(script_files)
  /\ LET file == script_files[batch_pos]
     IN IF ~Raises(file, format)
          THEN results' = [results EXCEPT !.success = Append(@, file.path)]
          ELSE results' = [results EXCEPT !.failed =
                 Append(@, [path |-> file.path, error |-> ErrorText(file.outcome)])]
  /\ batch_pos' = batch_pos + 1
  /\ UNCHANGED <<script_files, format, batch_state>>
  /\ UNCHANGED notBatchVars

\* the loop is over: return results
BatchReturn ==
  /\ batch_state = "loop"
  /\ batch_pos > Len(script_files)
  /\ batch_state' = "returned"
  /\ UNCHANGED <<script_files, format, batch_pos, results>>
  /\ UNCHANGED notBatchVars

BatchNext ==
  \/ PutFile
  \/ BatchStart
  \/ ProcessFile
  \/ BatchReturn

SpecBatch == BatchInit /\ [][BatchNext]_vars

Failing == {i \in DOMAIN script_files : Raises(script_files[i], format)}

\* C10: when batch_process_scripts returns, every file of the directory is
\* in exactly one of the success list (its path) and the failed list (its
\* path and error text), each once; so with N files of which exactly one
\* fails the result holds N-1 successes and 1 failure.
C10_EveryFileInExactlyOneList ==
  batch_state = "returned" =>
    /\ \A i \in DOMAIN script_files :
         LET path == script_files[i].path
             succ == Count(results.success, LAMBDA p : p = path)
             fail == Count(results.failed, LAMBDA f : f.path = path)
         IN IF i \in Failing
              THEN /\ succ = 0 /\ fail = 1
                   /\ \E k \in DOMAIN results.failed :
                        results.failed[k] =
                          [path |-> path, error |-> ErrorText(script_files[i].outcome)]
              ELSE succ = 1 /\ fail = 0
    /\ Len(results.success) + Len(results.failed) = Len(script_files)
    /\ Cardinality(Failing) = 1 =>
         /\ Len(results.success) = Len(script_files) - 1
         /\ Len(results.failed) = 1

\* a batch of several files has returned; exactly one file failed, and a
\* file after it is in the success list
C10_Witness ==
  /\ batch_state = "returned"
  /\ Len(script_files) >= 2
  /\ Cardinality(Failing) = 1
  /\ \E i \in Failing : \E j \in DOMAIN script_files :
       /\ j > i
       /\ \E k \in DOMAIN results.success : results.success[k] = script_files[j].path
  /\ Len(results.failed) = 1

-----------------------------------------------------------------------------
(* voice_generator.py: VoiceGenerator.generate_character_voices *)

CharacterCodes == {"NARRATOR", "THOMAS", "DIANE"}

\* an item of a trait list that is not a str: trait.lower() raises
\* AttributeError on it
NonStringTrait == "<int 7>"

\* the values of script_data["characters"][code]: voice_traits is absent,
\* empty, or a list of traits
CharacterDataPool ==
  { [description |-> "a voice"],
    [description |-> "a voice", voice_traits |-> <<>>],
    [description |-> "a voice", voice_traits |-> <<"deep", "gravelly">>],
    [description |-> "a voice", voice_traits |-> <<NonStringTrait>>] }

\* str.lower() of a character code
LowerCode(code) ==
  CASE code = "NARRATOR" -> "narrator"
    [] code = "THOMAS" -> "thomas"
    [] code = "DIANE" -> "diane"
    [] OTHER -> code

\* char_data.get("voice_traits", [])
VoiceTraitsOf(char_data) ==
  IF "voice_traits" \in DOMAIN char_data THEN char_data.voice_traits ELSE <<>>

\* generate_character_voice_profile(voice_traits) raises: its first loop
\* calls trait.lower() on every item
DerivationRaises(traits) == \E i \in DOMAIN traits : traits[i] = NonStringTrait

\* sample_rate of the audio configuration, and len(audio_data) of the clips
\* generate_voice_clip returns
sample_rate == 22050
ClipLength == 33075

\* len(audio_data) / sample_rate, in milliseconds
SampleDuration(samples) == (samples * 1000) \div sample_rate

CastInit ==
  /\ cast = <<>>
  /\ output_dir \in {"None", "outputs/voices"}
  /\ cast_pos = 0
  /\ cast_result = EmptyDict
  /\ voice_files = {}
  /\ cast_state = "script"
  /\ voice_traits = <<>> /\ vstate = "idle" /\ parameters = EmptyDict
  /\ profile = EmptyDict /\ base_effects = InitialBaseEffects
  /\ IdleExcept("cast")

\* one more character in script_data["characters"] before the call, with
\* what synthesis and saving will do for it: generate_voice_clip returns a
\* clip or raises, save_voice_profile returns or raises
PutCharacter ==
  /\ cast_state = "script"
  /\ Len(cast) < MaxCharacters
  /\ \E code \in CharacterCodes, data \in CharacterDataPool,
        synthesis \in {"returns", "raises"}, save \in {"returns", "raises"} :
       /\ \A i \in DOMAIN cast : cast[i].code # code
       /\ cast' = Append(cast, [code |-> code, data |-> data,
                                synthesis |-> synthesis, save |-> save])
  /\ UNCHANGED <<output_dir, cast_pos, cast_result, voice_files, cast_state>>
  /\ UNCHANGED notCastVars

\* the call up to the loop: {} is returned for an empty character map
CastStart ==
  /\ cast_state = "script"
  /\ cast_result' = EmptyDict
  /\ IF cast = <<>>
       THEN cast_state' = "returned" /\ cast_pos' = cast_pos
       ELSE cast_state' = "loop" /\ cast_pos' = 1
  /\ UNCHANGED <<cast, output_dir, voice_files>>
  /\ UNCHANGED notCastVars

\* ProcessCharacter with an exception ending the loop
ProcessCharacter_AbortOnFailure ==
  /\ cast_state = "loop"
  /\ cast_pos <= Len(cast)
  /\ LET char == cast[cast_pos]
         traits == VoiceTraitsOf(char.data)
         out == GenerateCharacterVoiceProfile(traits, base_effects)
         audio_path == IF output_dir = "None" THEN "None"
                       ELSE <<output_dir, LowerCode(char.code), "_sample.wav">>
         profile_path == <<output_dir, LowerCode(char.code), "_profile.json">>
     IN IF traits = <<>> \/ DerivationRaises(traits)
          THEN /\ UNCHANGED <<cast_result, voice_files, base_effects>>
               /\ cast_pos' = IF DerivationRaises(traits) THEN Len(cast) + 1
                                ELSE cast_pos + 1
        ELSE IF char.synthesis = "raises"
          THEN /\ base_effects' = out.heap
               /\ cast_pos' = Len(cast) + 1
               /\ UNCHANGED <<cast_result, voice_files>>
        ELSE /\ base_effects' = out.heap
             /\ cast_pos' = cast_pos + 1
             /\ cast_result' =
                  AddKey(cast_result, char.code,
                         [profile |-> out.profile,
                          sample_path |-> audio_path,
                          sample_duration |-> SampleDuration(ClipLength)])
             /\ voice_files' =
                  IF output_dir = "None" THEN voice_files
                  ELSE voice_files \cup {audio_path}
                         \cup (IF char.save = "returns" THEN {profile_path} ELSE {})
  /\ UNCHANGED <<cast, output_dir, cast_state>>
  /\ UNCHANGED <<voice_traits, vstate, parameters, profile>>
  /\ UNCHANGED notVoicecastVars

\* one pass of the loop body, for the character at cast_pos
ProcessCharacter ==
  /\ cast_state = "loop"
  /\ cast_pos <= Len(cast)
  /\ LET char == cast[cast_pos]
         traits == VoiceTraitsOf(char.data)
         out == GenerateCharacterVoiceProfile(traits, base_effects)
         audio_path == IF output_dir = "None" THEN "None"
                       ELSE <<output_dir, LowerCode(char.code), "_sample.wav">>
         profile_path == <<output_dir, LowerCode(char.code), "_profile.json">>
     IN IF traits = <<>> \/ DerivationRaises(traits)
          THEN UNCHANGED <<cast_result, voice_files, base_effects>>
        ELSE IF char.synthesis = "raises"
          THEN /\ base_effects' = out.heap
               /\ UNCHANGED <<cast_result, voice_files>>
        ELSE /\ base_effects' = out.heap
             /\ cast_result' =
                  AddKey(cast_result, char.code,
                         [profile |-> out.profile,
                          sample_path |-> audio_path,
                          sample_duration |-> SampleDuration(ClipLength)])
             /\ voice_files' =
                  IF output_dir = "None" THEN voice_files
                  ELSE voice_files \cup {audio_path}
                         \cup (IF char.save = "returns" THEN {profile_path} ELSE {})
  /\ cast_pos' = cast_pos + 1
  /\ UNCHANGED <<cast, output_dir, cast_state>>
  /\ UNCHANGED <<voice_traits, vstate, parameters, profile>>
  /\ UNCHANGED notVoicecastVars

\* the loop is over: return result
CastReturn ==
  /\ cast_state = "loop"
  /\ cast_pos > Len(cast)
  /\ cast_state' = "returned"
  /\ UNCHANGED <<cast, output_dir, cast_pos, cast_result, voice_files>>
  /\ UNCHANGED notCastVars

CastNext ==
  \/ PutCharacter
  \/ CastStart
  \/ ProcessCharacter
  \/ CastReturn

SpecCast == CastInit /\ [][CastNext]_vars

\* the characters generate_character_voices is to return an entry for
Eligible ==
  {i \in DOMAIN cast :
     /\ VoiceTraitsOf(cast[i].data) # <<>>
     /\ ~DerivationRaises(VoiceTraitsOf(cast[i].data))
     /\ cast[i].synthesis # "raises"}

\* C12: generate_character_voices returns an entry for exactly the
\* characters that have a trait list that is not empty and whose profile
\* derivation and synthesis raised nothing; a character without traits or
\* with a failed synthesis has no entry, and the characters after it are
\* processed all the same.
C12_EntryForExactlyTheSynthesizedCharacters ==
  cast_state = "returned" =>
    /\ DOMAIN cast_result = {cast[i].code : i \in Eligible}
    /\ \A i \in Eligible :
         /\ DOMAIN cast_result[cast[i].code] =
              {"profile", "sample_path", "sample_duration"}
         /\ cast_result[cast[i].code].sample_duration =
              SampleDuration(ClipLength)

\* the call has returned for three characters: the first has no traits,
\* the synthesis of the second failed, and the third has its entry
C12_Witness ==
  /\ cast_state = "returned"
  /\ Len(cast) = 3
  /\ VoiceTraitsOf(cast[1].data) = <<>>
  /\ VoiceTraitsOf(cast[2].data) # <<>>
  /\ ~DerivationRaises(VoiceTraitsOf(cast[2].data))
  /\ cast[2].synthesis = "raises"
  /\ 3 \in Eligible
  /\ DOMAIN cast_result = {cast[3].code}

-----------------------------------------------------------------------------
(* voice_generator.py: VoiceGenerator._prepare_tts_inputs, the speaker      *)
(* embedding                                                               *)

\* the keys of self.speaker_embeddings in the model: file stems and aliases
EmbeddingKeys == {"spk1", "male_medium", "male", "neutral", "default"}

\* the embedding files os.path.exists finds
ExistingFiles == {"voices/custom.pt"}

\* what a profile holds under "speaker_embedding": a str, or a tensor (an
\* object with a to method)
IsStr(v) == v \in {"spk1", "voices/custom.pt", "voices/gone.pt"}
HasTo(v) == v = "<tensor>"

\* the voice profiles the function is called with
TtsProfilePool ==
  { [k \in keys |-> CASE k = "speaker_id" -> sid
                      [] k = "speaker_embedding" -> semb
                      [] k = "gender" -> "male"
                      [] OTHER -> "Thomas"] :
      keys \in {ks \cup {"name"} :
                  ks \in SUBSET {"speaker_id", "speaker_embedding", "gender"}},
      sid \in {"spk1", "ghost"},
      semb \in {"spk1", "voices/custom.pt", "voices/gone.pt", "<tensor>"} }

\* an embedding: where it comes from; NoEmbedding is None
NoEmbedding == [source |-> "None", id |-> "None"]
Stored(key) == [source |-> "table", id |-> key]

\* dict lookups on self.speaker_embeddings, a list of entries in insertion
\* order
InTable(table, key) == \E i \in DOMAIN table : table[i].key = key
TableGet(table, key) ==
  table[CHOOSE i \in DOMAIN table : table[i].key = key].value

\* f"{gender}_medium"
GenderMedium(gender) ==
  CASE gender = "male" -> "male_medium"
    [] gender = "neutral" -> "neutral_medium"
    [] OTHER -> "<gender>_medium"

\* ResolveEmbedding with the default key tried before the gender keys
ResolveEmbedding_DefaultBeforeGender(voice_profile, table) ==
  LET by_id ==
        IF "speaker_id" \in DOMAIN voice_profile
           /\ InTable(table, voice_profile.speaker_id)
          THEN TableGet(table, voice_profile.speaker_id) ELSE NoEmbedding
      by_explicit ==
        IF by_id # NoEmbedding THEN by_id
        ELSE IF "speaker_embedding" \in DOMAIN voice_profile
          THEN LET speaker_embedding == voice_profile.speaker_embedding IN
               IF IsStr(speaker_embedding) /\ InTable(table, speaker_embedding)
                 THEN TableGet(table, speaker_embedding)
               ELSE IF IsStr(speaker_embedding) /\ speaker_embedding \in ExistingFiles
                 THEN [source |-> "file", id |-> speaker_embedding]
               ELSE IF HasTo(speaker_embedding)
                 THEN [source |-> "tensor", id |-> speaker_embedding]
               ELSE NoEmbedding
        ELSE NoEmbedding
      gender == IF "gender" \in DOMAIN voice_profile THEN voice_profile.gender
                ELSE "neutral"
      by_default ==
        IF by_explicit # NoEmbedding THEN by_explicit
        ELSE IF InTable(table, "default") THEN TableGet(table, "default")
        ELSE NoEmbedding
      by_gender ==
        IF by_default # NoEmbedding THEN by_default
        ELSE IF InTable(table, GenderMedium(gender))
          THEN TableGet(table, GenderMedium(gender))
        ELSE IF InTable(table, gender) THEN TableGet(table, gender)
        ELSE NoEmbedding
  IN IF by_gender # NoEmbedding THEN by_gender
     ELSE IF table # <<>> THEN table[1].value
     ELSE NoEmbedding

\* lines 282-314: the value of `embedding` before the final test
ResolveEmbedding(voice_profile, table) ==
  LET by_id ==
        IF "speaker_id" \in DOMAIN voice_profile
           /\ InTable(table, voice_profile.speaker_id)
          THEN TableGet(table, voice_profile.speaker_id) ELSE NoEmbedding
      by_explicit ==
        IF by_id # NoEmbedding THEN by_id
        ELSE IF "speaker_embedding" \in DOMAIN voice_profile
          THEN LET speaker_embedding == voice_profile.speaker_embedding IN
               IF IsStr(speaker_embedding) /\ InTable(table, speaker_embedding)
                 THEN TableGet(table, speaker_embedding)
               ELSE IF IsStr(speaker_embedding) /\ speaker_embedding \in ExistingFiles
                 THEN [source |-> "file", id |-> speaker_embedding]
               ELSE IF HasTo(speaker_embedding)
                 THEN [source |-> "tensor", id |-> speaker_embedding]
               ELSE NoEmbedding
        ELSE NoEmbedding
      gender == IF "gender" \in DOMAIN voice_profile THEN voice_profile.gender
                ELSE "neutral"
      by_gender ==
        IF by_explicit # NoEmbedding THEN by_explicit
        ELSE IF InTable(table, GenderMedium(gender))
          THEN TableGet(table, GenderMedium(gender))
        ELSE IF InTable(table, gender) THEN TableGet(table, gender)
        ELSE NoEmbedding
      by_default ==
        IF by_gender # NoEmbedding THEN by_gender
        ELSE IF InTable(table, "default") THEN TableGet(table, "default")
        ELSE NoEmbedding
  IN IF by_default # NoEmbedding THEN by_default
     ELSE IF table # <<>> THEN table[1].value
     ELSE NoEmbedding

\* the part of _prepare_tts_inputs about the embedding: the inputs with
\* their speaker_embeddings entry, or the ValueError raised
PrepareTtsInputs(voice_profile, table) ==
  LET embedding == ResolveEmbedding(voice_profile, table) IN
  IF embedding = NoEmbedding
    THEN [raised |-> "ValueError: No speaker embeddings available. Please run: python -m voice_generator.download_models --embeddings-only"]
    ELSE [speaker_embeddings |-> embedding]

TtsInit ==
  /\ speaker_embeddings = <<>>
  /\ tts_profile \in TtsProfilePool
  /\ tts_inputs = EmptyDict
  /\ tts_state = "loading"
  /\ IdleExcept("tts")

\* _load_speaker_embeddings stores one more embedding
LoadEmbedding ==
  /\ tts_state = "loading"
  /\ Len(speaker_embeddings) < MaxEmbeddings
  /\ \E key \in EmbeddingKeys :
       /\ ~InTable(speaker_embeddings, key)
       /\ speaker_embeddings' =
            Append(speaker_embeddings, [key |-> key, value |-> Stored(key)])
  /\ UNCHANGED <<tts_profile, tts_inputs, tts_state>>
  /\ UNCHANGED notTtsVars

\* _prepare_tts_inputs(text, voice_profile)
CallPrepareTtsInputs ==
  /\ tts_state = "loading"
  /\ tts_inputs' = PrepareTtsInputs(tts_profile, speaker_embeddings)
  /\ tts_state' = IF "raised" \in DOMAIN tts_inputs' THEN "raised" ELSE "returned"
  /\ UNCHANGED <<speaker_embeddings, tts_profile>>
  /\ UNCHANGED notTtsVars

TtsNext ==
  \/ LoadEmbedding
  \/ CallPrepareTtsInputs

SpecTts == TtsInit /\ [][TtsNext]_vars

\* the candidates of the documented order, each <<it resolves, its value>>
EmbeddingCandidates ==
  LET p == tts_profile
      t == speaker_embeddings
      has(k) == k \in DOMAIN p
      gender == IF has("gender") THEN p.gender ELSE "neutral"
  IN << <<has("speaker_id") /\ InTable(t, p.speaker_id),
          Stored(IF has("speaker_id") THEN p.speaker_id ELSE "")>>,
        <<has("speaker_embedding") /\ InTable(t, p.speaker_embedding),
          Stored(IF has("speaker_embedding") THEN p.speaker_embedding ELSE "")>>,
        <<has("speaker_embedding") /\ p.speaker_embedding \in ExistingFiles,
          [source |-> "file",
           id |-> IF has("speaker_embedding") THEN p.speaker_embedding ELSE ""]>>,
        <<has("speaker_embedding") /\ p.speaker_embedding = "<tensor>",
          [source |-> "tensor", id |-> "<tensor>"]>>,
        <<InTable(t, GenderMedium(gender)), Stored(GenderMedium(gender))>>,
        <<InTable(t, gender), Stored(gender)>>,
        <<InTable(t, "default"), Stored("default")>>,
        <<t # <<>>, IF t # <<>> THEN Stored(t[1].key) ELSE NoEmbedding>> >>

\* C13: the embedding put into the inputs is the first of the documented
\* order that resolves (speaker_id in the table; speaker_embedding as alias,
\* existing file or loaded vector; <gender>_medium; the gender; default; the
\* first entry of the table), and the error is raised exactly when none of
\* them resolves.
C13_FirstResolvingEmbeddingIsUsed ==
  LET c == EmbeddingCandidates
      resolving == {i \in DOMAIN c : c[i][1]}
  IN /\ tts_state = "returned" =>
          /\ resolving # {}
          /\ tts_inputs.speaker_embeddings = c[Min(resolving)][2]
     /\ tts_state = "raised" => resolving = {}
     /\ tts_state \in {"returned", "raised"} =>
          (resolving = {} <=> "raised" \in DOMAIN tts_inputs)

\* the call has returned the <gender>_medium embedding for a profile whose
\* speaker_id and speaker_embedding do not resolve, with a default
\* embedding stored before it
C13_Witness ==
  /\ tts_state = "returned"
  /\ "speaker_id" \in DOMAIN tts_profile
  /\ ~InTable(speaker_embeddings, tts_profile.speaker_id)
  /\ "speaker_embedding" \in DOMAIN tts_profile
  /\ tts_profile.speaker_embedding = "voices/gone.pt"
  /\ "gender" \in DOMAIN tts_profile
  /\ Len(speaker_embeddings) >= 2
  /\ speaker_embeddings[1].key = "default"
  /\ tts_inputs.speaker_embeddings = Stored("male_medium")

-----------------------------------------------------------------------------
(* main.py: generate_audio_drama and main *)

\* the four stages of generate_audio_drama, in the order of its statements
Stages == <<"parse_script", "generate_voices", "process_sounds", "mix_audio_drama">>

\* output_path.with_suffix('.wav') of the script path, or the path given
OutputPathOf(args) ==
  IF args.output = "None" THEN <<args.script, ".wav">> ELSE <<args.output>>

\* the arguments stage k is called with: the results of the stages before
\* it, and the output path for the mixer
StageArgs(k, args, returned) ==
  CASE k = 1 -> <<args.script>>
    [] k = 2 -> <<returned[1]>>
    [] k = 3 -> <<returned[1]>>
    [] OTHER -> <<returned[1], returned[2], returned[3], OutputPathOf(args)>>

\* what stage k returns
StageResult(k, args) ==
  CASE k = 1 -> <<"script_data">>
    [] k = 2 -> <<"voice_files">>
    [] k = 3 -> <<"sound_files">>
    [] OTHER -> OutputPathOf(args)

MainInit ==
  /\ main_args \in [script : {"play.md", "drafts/play.md"},
                    output : {"None", "out/play.wav"},
                    config : {"None", "config.yaml"},
                    verbose : BOOLEAN]
  /\ main_pc = "main"
  /\ main_events = <<>>
  /\ main_returned = <<>>
  /\ log_level = "INFO"
  /\ exit_code = -1
  /\ IdleExcept("main")

\* main up to the call of generate_audio_drama: the logging level
MainStart ==
  /\ main_pc = "main"
  /\ log_level' = IF main_args.verbose THEN "DEBUG" ELSE log_level
  /\ main_pc' = "output_dir"
  /\ UNCHANGED <<main_args, main_events, main_returned, exit_code>>
  /\ UNCHANGED notMainVars

\* generate_audio_drama up to the first stage: the output path and its
\* directory; mkdir returns or raises
EnsureOutputDir ==
  /\ main_pc = "output_dir"
  /\ \E outcome \in {"returns", "raises"} :
       /\ main_events' = Append(main_events,
            [stage |-> "mkdir", event |-> outcome, with |-> OutputPathOf(main_args)])
       /\ main_pc' = IF outcome = "returns" THEN "between" ELSE "raised"
  /\ UNCHANGED <<main_args, main_returned, log_level, exit_code>>
  /\ UNCHANGED notMainVars

\* the next stage is called
CallStage ==
  /\ main_pc = "between"
  /\ Len(main_returned) < Len(Stages)
  /\ LET k == Len(main_returned) + 1 IN
     main_events' = Append(main_events,
       [stage |-> Stages[k], event |-> "called",
        with |-> StageArgs(k, main_args, main_returned)])
  /\ main_pc' = "in_stage"
  /\ UNCHANGED <<main_args, main_returned, log_level, exit_code>>
  /\ UNCHANGED notMainVars

\* the stage running returns its result
StageReturns ==
  /\ main_pc = "in_stage"
  /\ LET k == Len(main_returned) + 1 IN
     /\ main_events' = Append(main_events,
          [stage |-> Stages[k], event |-> "returned",
           with |-> StageResult(k, main_args)])
     /\ main_returned' = Append(main_returned, StageResult(k, main_args))
  /\ main_pc' = "between"
  /\ UNCHANGED <<main_args, log_level, exit_code>>
  /\ UNCHANGED notMainVars

\* StageRaises with the exception swallowed: the pipeline goes on
StageRaises_Swallowed ==
  /\ main_pc = "in_stage"
  /\ LET k == Len(main_returned) + 1 IN
     /\ main_events' = Append(main_events,
          [stage |-> Stages[k], event |-> "raised", with |-> <<"Exception">>])
     /\ main_returned' = Append(main_returned, <<"None">>)
  /\ main_pc' = "between"
  /\ UNCHANGED <<main_args, log_level, exit_code>>
  /\ UNCHANGED notMainVars

\* the stage running raises an Exception: it leaves generate_audio_drama
StageRaises ==
  /\ main_pc = "in_stage"
  /\ LET k == Len(main_returned) + 1 IN
     main_events' = Append(main_events,
       [stage |-> Stages[k], event |-> "raised", with |-> <<"Exception">>])
  /\ main_pc' = "raised"
  /\ UNCHANGED <<main_args, main_returned, log_level, exit_code>>
  /\ UNCHANGED notMainVars

\* generate_audio_drama returns output_path; main prints it and returns 0
MainReturns0 ==
  /\ main_pc = "between"
  /\ Len(main_returned) = Len(Stages)
  /\ main_events' = Append(main_events,
       [stage |-> "main", event |-> "printed", with |-> OutputPathOf(main_args)])
  /\ exit_code' = 0
  /\ main_pc' = "exited"
  /\ UNCHANGED <<main_args, main_returned, log_level>>
  /\ UNCHANGED notMainVars

\* the except clause of main: the error is logged, main returns 1
MainReturns1 ==
  /\ main_pc = "raised"
  /\ exit_code' = 1
  /\ main_pc' = "exited"
  /\ UNCHANGED <<main_args, main_events, main_returned, log_level>>
  /\ UNCHANGED notMainVars

MainNext ==
  \/ MainStart
  \/ EnsureOutputDir
  \/ CallStage
  \/ StageReturns
  \/ StageRaises
  \/ MainReturns0
  \/ MainReturns1

SpecMain == MainInit /\ [][MainNext]_vars

\* the events of the four stages, in the order they happened
StageEvents ==
  SelectSeq(main_events, LAMBDA e : e.stage \in {Stages[k] : k \in DOMAIN Stages})

\* C14: the stages are called in the order parse, generate voices, process
\* sounds, mix, each after the one before it returned; main returns 0 only
\* when all four returned, and returns 1 when a stage raised, after which no
\* stage is called.
C14_StagesInOrderAndExitCode ==
  LET ev == StageEvents IN
  /\ \A i \in DOMAIN ev :
       /\ ev[i].stage = Stages[(i + 1) \div 2]
       /\ i % 2 = 1 => ev[i].event = "called"
       /\ i % 2 = 0 => ev[i].event \in {"returned", "raised"}
       /\ (i > 1 /\ i % 2 = 1) => ev[i - 1].event = "returned"
       /\ ev[i].event = "raised" => i = Len(ev)
  /\ exit_code = 0 =>
       /\ Len(ev) = 2 * Len(Stages)
       /\ \A k \in DOMAIN Stages : ev[2 * k].event = "returned"
  /\ main_pc = "exited" =>
       IF \E i \in DOMAIN ev : ev[i].event = "raised"
         THEN exit_code = 1 ELSE exit_code \in {0, 1}
  /\ (main_pc = "exited" /\ exit_code = 1) =>
       \E i \in DOMAIN main_events : main_events[i].event \in {"raised", "raises"}

\* main has returned 1 after generate_voices raised: process_sounds and
\* mix_audio_drama were not called
C14_Witness ==
  /\ main_pc = "exited"
  /\ exit_code = 1
  /\ Len(StageEvents) = 4
  /\ StageEvents[4] = [stage |-> "generate_voices", event |-> "raised",
                       with |-> <<"Exception">>]

-----------------------------------------------------------------------------
(* models/download_models.py and voice_generator/download_models.py: main *)

\* the catalogs, as the keys of each dict in its order
MODELS == <<"tts", "voice_conversion", "vocoder", "embedder", "audio_classification">>
VOICE_MODELS == <<"tts_base", "vocoder", "speaker_encoder">>
MAC_DEV_MODELS == <<"tts_small", "vocoder_small">>

\* models_to_download when it is a whole catalog, <<>> when it is the list
\* given with --models
CatalogOf(args) ==
  CASE args.tool = "voice" /\ args.mac_dev -> MAC_DEV_MODELS
    [] args.tool = "voice" -> VOICE_MODELS
    [] args.all -> MODELS
    [] OTHER -> <<>>

\* the command lines of the two downloaders
DownloadArgs ==
  [tool : {"models"}, all : BOOLEAN, mac_dev : {FALSE},
   skip_embeddings : {TRUE}, embeddings_only : {FALSE}]
  \cup
  [tool : {"voice"}, all : {TRUE}, mac_dev : BOOLEAN,
   skip_embeddings : BOOLEAN, embeddings_only : BOOLEAN]

\* what the machine does during the run: the two ways to the speaker
\* embeddings succeed or fail, and the disk is large enough, or low with the
\* user answering y or n, or shutil.disk_usage raises ("unknown")
DownloadEnvs(args) ==
  IF args.tool = "models"
    THEN [download_speaker_embeddings : {FALSE}, create_speaker_embeddings : {FALSE},
          disk : {"enough"}]
    ELSE [download_speaker_embeddings : BOOLEAN, create_speaker_embeddings : BOOLEAN,
          disk : {"enough", "low, y", "low, n", "unknown"}]

DlInit ==
  /\ dl_args \in DownloadArgs
  /\ dl_env \in DownloadEnvs(dl_args)
  /\ dl_models = <<>>
  /\ dl_pos = 0
  /\ success_count = 0
  /\ dl_processed = <<>>
  /\ dl_exit = -1
  /\ dl_state = "args"
  /\ disk_compared = FALSE
  /\ IdleExcept("dl")

\* one more model of models_to_download before the run, with what its
\* download will do (download_model and download_huggingface_model return
\* True or False, they raise nothing)
RequestModel ==
  /\ dl_state = "args"
  /\ LET catalog == CatalogOf(dl_args) IN
     \E key \in {MODELS[i] : i \in DOMAIN MODELS} \cup {catalog[i] : i \in DOMAIN catalog},
        success \in BOOLEAN :
       /\ IF catalog # <<>>
            THEN Len(dl_models) < Len(catalog) /\ key = catalog[Len(dl_models) + 1]
            ELSE Len(dl_models) < MaxModels /\ key \in {MODELS[i] : i \in DOMAIN MODELS}
       /\ dl_models' = Append(dl_models, [key |-> key, success |-> success])
  /\ UNCHANGED <<dl_args, dl_env, dl_pos, success_count, dl_processed, dl_exit,
                 dl_state, disk_compared>>
  /\ UNCHANGED notDlVars

\* main up to the loop over the models: --embeddings-only downloads the
\* embeddings and returns; the voice downloader then compares the free space
\* with 1.2 times the total size unless disk_usage raises, and a low disk
\* the user does not accept returns 1; the models downloader goes straight
\* to the loop
DlStart ==
  /\ dl_state = "args"
  /\ IF CatalogOf(dl_args) # <<>> THEN Len(dl_models) = Len(CatalogOf(dl_args))
     ELSE dl_models # <<>>
  /\ IF dl_args.tool = "voice" /\ dl_args.embeddings_only
       THEN /\ dl_processed' = <<"speaker embeddings">>
            /\ dl_exit' = IF dl_env.download_speaker_embeddings THEN 0 ELSE 1
            /\ dl_state' = "exited"
            /\ UNCHANGED <<dl_pos, success_count>>
     ELSE IF dl_args.tool = "voice" /\ dl_env.disk = "low, n"
       THEN /\ dl_exit' = 1
            /\ dl_state' = "exited"
            /\ UNCHANGED <<dl_pos, success_count, dl_processed>>
     ELSE /\ success_count' = 0
          /\ dl_pos' = 1
          /\ dl_state' = "loop"
          /\ UNCHANGED <<dl_processed, dl_exit>>
  /\ disk_compared' = (/\ dl_args.tool = "voice"
                       /\ ~dl_args.embeddings_only
                       /\ dl_env.disk # "unknown")
  /\ UNCHANGED <<dl_args, dl_env, dl_models>>
  /\ UNCHANGED notDlVars

\* one pass of the loop over models_to_download
DownloadModel ==
  /\ dl_state = "loop"
  /\ dl_pos <= Len(dl_models)
  /\ success_count' = IF dl_models[dl_pos].success THEN success_count + 1
                      ELSE success_count
  /\ dl_processed' = Append(dl_processed, dl_models[dl_pos].key)
  /\ dl_pos' = dl_pos + 1
  /\ UNCHANGED <<dl_args, dl_env, dl_models, dl_exit, dl_state, disk_compared>>
  /\ UNCHANGED notDlVars

\* main after the loop: the voice downloader gets the speaker embeddings
\* unless they are skipped, creating them if the download failed; both
\* return the status of the models
DlReturn ==
  /\ dl_state = "loop"
  /\ dl_pos > Len(dl_models)
  /\ dl_processed' =
       IF dl_args.tool = "voice" /\ ~dl_args.skip_embeddings
         THEN Append(dl_processed, "speaker embeddings") ELSE dl_processed
  /\ dl_exit' = IF success_count = Len(dl_models) THEN 0 ELSE 1
  /\ dl_state' = "exited"
  /\ UNCHANGED <<dl_args, dl_env, dl_models, dl_pos, success_count, disk_compared>>
  /\ UNCHANGED notDlVars

DlNext ==
  \/ RequestModel
  \/ DlStart
  \/ DownloadModel
  \/ DlReturn

SpecDl == DlInit /\ [][DlNext]_vars

\* the speaker-embedding set is an artifact of the run, and the run did not
\* get it: the download failed and, where the run goes on to create the
\* embeddings, creating them failed too
EmbeddingsRequested ==
  dl_args.tool = "voice" /\ (dl_args.embeddings_only \/ ~dl_args.skip_embeddings)
EmbeddingsFailed ==
  /\ EmbeddingsRequested
  /\ ~dl_env.download_speaker_embeddings
  /\ dl_args.embeddings_only \/ ~dl_env.create_speaker_embeddings

\* the models of the run: none with --embeddings-only
ModelsRequested == IF dl_args.tool = "voice" /\ dl_args.embeddings_only
                     THEN {} ELSE DOMAIN dl_models

\* C15 as claimed: a downloader the user did not cancel processes every
\* requested artifact, whatever failed before it, and exits with a status
\* that is not 0 exactly when a requested model or the requested
\* speaker-embedding set failed.
C15_AllArtifactsProcessedExitReportsFailure ==
  (dl_state = "exited" /\ ~(dl_args.tool = "voice" /\ ~dl_args.embeddings_only
                             /\ dl_env.disk = "low, n")) =>
    /\ \A i \in ModelsRequested :
         \E k \in DOMAIN dl_processed : dl_processed[k] = dl_models[i].key
    /\ EmbeddingsRequested =>
         \E k \in DOMAIN dl_processed : dl_processed[k] = "speaker embeddings"
    /\ dl_exit # 0 <=>
         \/ \E i \in ModelsRequested : ~dl_models[i].success
         \/ EmbeddingsFailed

\* C28: in every downloader no artifact is fetched before the free disk
\* space has been compared with 1.2 times the total estimated size, and when
\* the comparison finds too little space and the user declines, no artifact
\* is fetched at all.
C28_NoFetchBeforeDiskSpaceCompared ==
  /\ dl_processed # <<>> => disk_compared
  /\ (disk_compared /\ dl_env.disk = "low, n") => dl_processed = <<>>

-----------------------------------------------------------------------------
(* script_structure_builder.py: _calculate_element_duration on one          *)
(* dialogue element, with its emotion and without                          *)

\* the emotions of the model: the four that speed the delivery up, in lower
\* and in upper case, one that slows it down and one the code does not know
EmotionPool ==
  {<<"angry">>, <<"Angry">>, <<"excited">>, <<"furious">>, <<"agitated">>,
   <<"sad">>, <<"thoughtful">>, <<"calm">>}

\* the words a text is made of
WordPool == {"Leave", "now"}

\* the element without its emotion key
WithoutEmotion(element) ==
  [k \in DOMAIN element \ {"emotion"} |-> element[k]]

DurInit ==
  /\ \E character \in {<<"John">>, <<"Mary">>, <<"Sam">>, <<"Ghost">>} :
       LET plain == [type |-> "dialogue", character |-> character, text |-> <<>>]
       IN dur_element \in
            {plain, AddKey(plain, "is_internal", TRUE)}
            \cup {AddKey(plain, "emotion", e) : e \in EmotionPool}
            \cup {AddKey(AddKey(plain, "emotion", e), "is_internal", TRUE) :
                    e \in EmotionPool}
  /\ dur_params \in ParamSets
  /\ dur_with = 0
  /\ dur_without = 0
  /\ dur_state = "element"
  /\ IdleExcept("dur")

\* one more word of the element's text
AddWord ==
  /\ dur_state = "element"
  /\ WordCount(dur_element.text) < MaxWords
  /\ \E word \in WordPool :
       dur_element' =
         [dur_element EXCEPT !.text =
            IF @ = <<>> THEN <<word>> ELSE @ \o <<" ", word>>]
  /\ UNCHANGED <<dur_params, dur_with, dur_without, dur_state>>
  /\ UNCHANGED notDurVars

\* _calculate_element_duration(element, characters) for the element, and for
\* the same element without an emotion
CallCalculateElementDuration ==
  /\ dur_state = "element"
  /\ dur_with' = CalculateElementDuration(dur_element, Characters, dur_params)
  /\ dur_without' =
       CalculateElementDuration(WithoutEmotion(dur_element), Characters, dur_params)
  /\ dur_state' = "calculated"
  /\ UNCHANGED <<dur_element, dur_params>>
  /\ UNCHANGED notDurVars

DurNext ==
  \/ AddWord
  \/ CallCalculateElementDuration

SpecDur == DurInit /\ [][DurNext]_vars

\* the element has one of the emotions that speed the delivery up
SpedUp ==
  /\ "emotion" \in DOMAIN dur_element
  /\ Lower(dur_element.emotion) \in
       {<<"angry">>, <<"excited">>, <<"furious">>, <<"agitated">>}

\* C17 as claimed: a dialogue element whose emotion is angry, excited,
\* furious or agitated gets a strictly shorter duration than the same
\* element (same character, same text) without an emotion.
C17_AngryStrictlyShorter ==
  (dur_state = "calculated" /\ SpedUp) => dur_with < dur_without

\* C17 as amended: the duration is strictly shorter when the text has at
\* least one word; a text without words has the duration 0 with the emotion
\* and without it.
C17_AngryShorterUnlessNoWords ==
  (dur_state = "calculated" /\ SpedUp) =>
    IF WordCount(dur_element.text) >= 1
      THEN dur_with < dur_without
      ELSE dur_with = 0 /\ dur_without = 0

\* the durations of an angry line of two words have been calculated
C17_Witness ==
  /\ dur_state = "calculated"
  /\ dur_element.character = <<"John">>
  /\ "emotion" \in DOMAIN dur_element
  /\ dur_element.emotion = <<"Angry">>
  /\ WordCount(dur_element.text) = 2
  /\ dur_with < dur_without

\* (word_count / words_per_minute) * 60 with the rate adjusted by the
\* character's speed only, in ticks
DurationAtCharacterRate ==
  (WordCount(dur_element.text) * 60 * TicksPerSecond * 100)
    \div (dur_params.words_per_minute * SpeedPercent(dur_element, Characters))

\* the emotion's factor in twentieths, the internal factor in tenths
EmotionTwentieths == EmotionPercent(dur_element) \div 5

InternalTenths == IF IsInternal(dur_element) THEN 11 ELSE 10

\* C21 as claimed: the duration is (word_count / effective rate) * 60 with
\* the effective rate being the base rate multiplied by the speed factor,
\* then by the emotion factor, then by 1.1 when the element is internal.
C21_DurationFromEffectiveRate ==
  dur_state = "calculated" =>
    dur_with * EmotionTwentieths * InternalTenths = DurationAtCharacterRate * 200

\* C21 as amended: the rate is the base rate multiplied by the speed factor
\* only; the duration (word_count / rate) * 60 is then multiplied by the
\* emotion factor and by 1.1 when the element is internal.
C21_DurationScaledByEmotionAndInternal ==
  dur_state = "calculated" =>
    dur_with * 200 = DurationAtCharacterRate * EmotionTwentieths * InternalTenths

\* a sad internal thought of two words by the fast character
C21_Witness ==
  /\ dur_state = "calculated"
  /\ dur_element.character = <<"Mary">>
  /\ "emotion" \in DOMAIN dur_element
  /\ dur_element.emotion = <<"sad">>
  /\ IsInternal(dur_element)
  /\ WordCount(dur_element.text) = 2
  /\ dur_with * 200 = DurationAtCharacterRate * 23 * 11

-----------------------------------------------------------------------------
(* sound_cue_extractor.py: _categorize_sound_cue and _parse_modifiers on    *)
(* one description                                                         *)

\* the words a description is made of: keywords of several categories,
\* words that hold a keyword inside them (slams, scary), the two halves of
\* a two-word keyword, words of the three modifier vocabularies, and words
\* in upper case
CueWordPool ==
  {"rain", "Rain", "lightning", "phone", "door", "footsteps", "music",
   "scary", "heavy", "intensifying", "soft", "fading", "brief", "Quick",
   "knock", "slams", "room", "tone"}

CueInit ==
  /\ cue_description = <<>>
  /\ cue_category = ""
  /\ cue_modifiers = EmptyDict
  /\ cue_called = {}
  /\ IdleExcept("cue")

\* one more word of the description
AddCueWord ==
  /\ cue_called = {}
  /\ WordCount(cue_description) < MaxCueWords
  /\ \E word \in CueWordPool :
       cue_description' =
         IF cue_description = <<>> THEN <<word>>
         ELSE cue_description \o <<" ", word>>
  /\ UNCHANGED <<cue_category, cue_modifiers, cue_called>>
  /\ UNCHANGED notCueVars

\* _categorize_sound_cue(description)
CallCategorizeSoundCue ==
  /\ "_categorize_sound_cue" \notin cue_called
  /\ cue_category' = CategorizeSoundCue(cue_description)
  /\ cue_called' = cue_called \cup {"_categorize_sound_cue"}
  /\ UNCHANGED <<cue_description, cue_modifiers>>
  /\ UNCHANGED notCueVars

\* _parse_modifiers(description)
CallParseModifiers ==
  /\ "_parse_modifiers" \notin cue_called
  /\ cue_modifiers' = ParseModifiers(cue_description)
  /\ cue_called' = cue_called \cup {"_parse_modifiers"}
  /\ UNCHANGED <<cue_description, cue_category>>
  /\ UNCHANGED notCueVars

CueNext ==
  \/ AddCueWord
  \/ CallCategorizeSoundCue
  \/ CallParseModifiers

SpecCue == CueInit /\ [][CueNext]_vars

\* the description, lower-cased, contains one of the keywords
Contains(keywords) ==
  \E k \in DOMAIN keywords : KeywordIn(keywords[k], Lower(cue_description))

\* the categories of the table that have a keyword in the description
TableHits == {c \in DOMAIN sound_categories : Contains(sound_categories[c].keywords)}

\* C16: a description with a weather keyword is categorized weather;
\* otherwise one with an electronic-device keyword is categorized
\* electronic; otherwise it gets the first category of the table, in table
\* order, that has a keyword in the description; otherwise it is misc.
C16_CategorizationFollowsFixedPriority ==
  "_categorize_sound_cue" \in cue_called =>
    /\ Contains(weather_keywords) => cue_category = "weather"
    /\ (~Contains(weather_keywords) /\ Contains(electronic_keywords)) =>
         cue_category = "electronic"
    /\ (~Contains(weather_keywords) /\ ~Contains(electronic_keywords)) =>
         /\ \A c \in TableHits :
              (\A earlier \in 1..(c - 1) : earlier \notin TableHits) =>
                cue_category = sound_categories[c].category
         /\ TableHits = {} => cue_category = "misc"

\* an electronic-device keyword without a weather keyword, in a description
\* that an earlier category of the table would have claimed
C16_Witness ==
  /\ "_categorize_sound_cue" \in cue_called
  /\ ~Contains(weather_keywords)
  /\ Contains(electronic_keywords)
  /\ \E c \in TableHits : sound_categories[c].category = "object"
  /\ cue_category = "electronic"

\* the words of the description that belong to a vocabulary, lower-cased,
\* in the order they occur
WordsAmong(vocabulary) ==
  SelectSeq(Lower(cue_description), LAMBDA word : word \in vocabulary)

\* the modifier is absent when no word of its vocabulary occurs, and
\* otherwise has the value of the first such word: one value for the words
\* of first_kind, the other value for the rest of the vocabulary
ModifierFrom(key, vocabulary, first_kind, first_value, other_value) ==
  IF WordsAmong(vocabulary) = <<>> THEN key \notin DOMAIN cue_modifiers
  ELSE /\ key \in DOMAIN cue_modifiers
       /\ cue_modifiers[key] =
            IF WordsAmong(vocabulary)[1] \in first_kind THEN first_value
            ELSE other_value

\* C18: intensity_change, duration and volume are set independently of each
\* other and of the category, each from the whole words of its own
\* vocabulary in the description, and a modifier is absent when the
\* description has no word of its vocabulary; "heavy rain intensifying"
\* gives intensity_change increasing, "soft music fading" gives
\* intensity_change decreasing and volume soft, "brief knock" gives
\* duration short.
C18_ModifiersSetIndependently ==
  "_parse_modifiers" \in cue_called =>
    /\ DOMAIN cue_modifiers \subseteq {"intensity_change", "duration", "volume"}
    /\ ModifierFrom("intensity_change",
         {"increasing", "decreasing", "intensifying", "fading", "growing",
          "building", "diminishing"},
         {"increasing", "intensifying", "growing", "building"},
         "increasing", "decreasing")
    /\ ModifierFrom("duration",
         {"brief", "short", "long", "extended", "continuous", "sustained",
          "quick"},
         {"brief", "short", "quick"}, "short", "long")
    /\ ModifierFrom("volume",
         {"loud", "soft", "quiet", "gentle", "strong", "heavy", "light",
          "faint", "distant"},
         {"loud", "strong", "heavy"}, "loud", "soft")
    /\ cue_description = <<"heavy", " ", "rain", " ", "intensifying">> =>
         cue_modifiers.intensity_change = "increasing"
    /\ cue_description = <<"soft", " ", "music", " ", "fading">> =>
         /\ cue_modifiers.intensity_change = "decreasing"
         /\ cue_modifiers.volume = "soft"
    /\ cue_description = <<"brief", " ", "knock">> =>
         cue_modifiers.duration = "short"

\* "soft music fading": a modifier from each of two vocabularies and none
\* from the third
C18_Witness ==
  /\ "_parse_modifiers" \in cue_called
  /\ cue_description = <<"soft", " ", "music", " ", "fading">>
  /\ cue_modifiers = [intensity_change |-> "decreasing", volume |-> "soft"]

-----------------------------------------------------------------------------
(* utils/config_loader.py: load_config and validate_config                  *)

required_sections ==
  <<"general", "script_parser", "voice_generator", "sound_manager", "audio_mixer">>

RequiredSections == {required_sections[i] : i \in DOMAIN required_sections}

\* what yaml.safe_load returns for the file: a mapping with some of the
\* sections (and possibly another key), a sequence of scalars, a plain
\* scalar string of words, an integer, or None for an empty file.  entries
\* holds the keys, the items or the words.
ConfigDocuments ==
  {[kind |-> "mapping", entries |-> keys] :
     keys \in SUBSET (RequiredSections \cup {"extra"})}
  \cup {[kind |-> kind, entries |-> items] :
          kind \in {"sequence", "str"}, items \in SUBSET RequiredSections}
  \cup {[kind |-> kind, entries |-> {}] : kind \in {"int", "None"}}

\* `section in config`: a key of a dict, an item of a list, a substring of a
\* str (no section name is a substring of another word of the model);
\* TypeError for an int and for None
SectionIn(section, config) == section \in config.entries

\* validate_config(config): what it returns or raises, and what it logs
ValidateConfig(config) ==
  IF config.kind \in {"int", "None"}
    THEN [outcome |-> "TypeError", logged |-> <<>>]
  ELSE LET missing_sections ==
             SelectSeq(required_sections, LAMBDA section : ~SectionIn(section, config))
       IN IF missing_sections # <<>>
            THEN [outcome |-> "False", logged |-> missing_sections]
          ELSE [outcome |-> "True", logged |-> <<>>]

CfgInit ==
  /\ loaded_config = [kind |-> "unloaded", entries |-> {}]
  /\ cfg_result = [outcome |-> "", logged |-> <<>>]
  /\ cfg_state = "start"
  /\ IdleExcept("cfg")

\* load_config(config_path): the document of the file
LoadConfig ==
  /\ cfg_state = "start"
  /\ loaded_config' \in ConfigDocuments
  /\ cfg_state' = "loaded"
  /\ UNCHANGED cfg_result
  /\ UNCHANGED notCfgVars

\* validate_config(config) on the loaded document
CallValidateConfig ==
  /\ cfg_state = "loaded"
  /\ cfg_result' = ValidateConfig(loaded_config)
  /\ cfg_state' = "validated"
  /\ UNCHANGED loaded_config
  /\ UNCHANGED notCfgVars

CfgNext ==
  \/ LoadConfig
  \/ CallValidateConfig

SpecCfg == CfgInit /\ [][CfgNext]_vars

\* the top-level sections of a document: the keys of its mapping
TopLevelSections(config) ==
  IF config.kind = "mapping" THEN config.entries ELSE {}

\* C19: validate_config returns true if and only if all five required
\* top-level sections are present in the loaded settings document, and
\* returns false for every document missing at least one of them.
C19_TrueIffAllFiveSectionsPresent ==
  cfg_state = "validated" =>
    cfg_result.outcome =
      IF RequiredSections \subseteq TopLevelSections(loaded_config)
        THEN "True" ELSE "False"

-----------------------------------------------------------------------------
(* voice_generator/effects.py: apply_effect_chain                           *)

\* An audio buffer is its samples (whole numbers here) and the list of the
\* transformations applied to them that the code hands to a library
\* (pedalboard, librosa, scipy) or seeds from a random generator: their
\* output is not computed, only recorded.

\* a params value of None
NoneParams == [is_none |-> TRUE]

\* the effect names apply_effect_chain has a branch for
KnownEffects ==
  {"reverb", "echo", "delay", "pitch_shift", "timestretch", "distortion",
   "tremolo", "lowpass", "highpass", "bandpass", "eq", "compressor", "noise"}

\* the entries an effect map is made of.  depth, semitones and amount are in
\* hundredths, rate in tenths of a hertz.
EffectPool ==
  {[effect_type |-> "tremolo", params |-> [depth |-> 100, rate |-> 55125]],
   [effect_type |-> "tremolo", params |-> [depth |-> 0, rate |-> 55125]],
   [effect_type |-> "pitch_shift", params |-> EmptyDict],
   [effect_type |-> "pitch_shift", params |-> [semitones |-> 200]],
   [effect_type |-> "distortion", params |-> NoneParams],
   [effect_type |-> "robot", params |-> EmptyDict],
   [effect_type |-> "Reverb", params |-> NoneParams]}

SamplePool == {-4, 0, 4}

\* params.get(key, default); AttributeError on None is raised by the caller
ParamsGet(effect_params, key, default) ==
  IF key \in DOMAIN effect_params THEN effect_params[key] ELSE default

\* the buffer after a transformation whose output is not computed
Through(buffer, transformation) ==
  [buffer EXCEPT !.library = Append(@, transformation)]

\* np.sin(2 * np.pi * rate * t) at sample n when rate is a quarter of the
\* sample rate: 0, 1, 0, -1, ...
QuarterSine(n) ==
  CASE n % 4 = 0 -> 0
    [] n % 4 = 1 -> 1
    [] n % 4 = 2 -> 0
    [] OTHER -> -1

\* apply_tremolo(audio, depth, rate, sample_rate)
ApplyTremolo(buffer, depth, rate, rate_of_samples) ==
  IF depth < 1 THEN buffer
  ELSE IF buffer.library # <<>> \/ 4 * rate # 10 * rate_of_samples
    THEN Through(buffer, "tremolo")
  ELSE [buffer EXCEPT !.samples =
          [n \in DOMAIN @ |->
             (@[n] * (200 - depth * (1 + QuarterSine(n - 1)))) \div 200]]

\* apply_pitch_shift(audio, semitones, sample_rate)
ApplyPitchShift(buffer, semitones) ==
  IF (IF semitones < 0 THEN -semitones ELSE semitones) < 10 THEN buffer
  ELSE Through(buffer, "pitch_shift")

\* apply_distortion(audio, amount, sample_rate)
ApplyDistortion(buffer, amount) ==
  IF amount < 1 THEN buffer ELSE Through(buffer, "distortion")

\* one pass of the loop of apply_effect_chain with the unknown effect type
\* raising instead of being skipped
ApplyEffect_UnknownRaises(processed, effect_type, effect_params, rate_of_samples) ==
  IF effect_type \notin KnownEffects
    THEN [outcome |-> "ValueError", audio |-> processed]
  ELSE IF effect_params = NoneParams
    THEN [outcome |-> "AttributeError", audio |-> processed]
  ELSE [outcome |-> "returns", audio |->
          CASE effect_type = "tremolo" ->
                 ApplyTremolo(processed, ParamsGet(effect_params, "depth", 50),
                              ParamsGet(effect_params, "rate", 50), rate_of_samples)
            [] effect_type = "pitch_shift" ->
                 ApplyPitchShift(processed, ParamsGet(effect_params, "semitones", 0))
            [] effect_type = "distortion" ->
                 ApplyDistortion(processed, ParamsGet(effect_params, "amount", 10))
            [] OTHER -> Through(processed, effect_type)]

\* one pass of the loop of apply_effect_chain: the branch of the effect
\* type, and the warning for a type without a branch
ApplyEffect(processed, effect_type, effect_params, rate_of_samples) ==
  IF effect_type \notin KnownEffects
    THEN [outcome |-> "returns", audio |-> processed]
  ELSE IF effect_params = NoneParams
    THEN [outcome |-> "AttributeError", audio |-> processed]
  ELSE [outcome |-> "returns", audio |->
          CASE effect_type = "tremolo" ->
                 ApplyTremolo(processed, ParamsGet(effect_params, "depth", 50),
                              ParamsGet(effect_params, "rate", 50), rate_of_samples)
            [] effect_type = "pitch_shift" ->
                 ApplyPitchShift(processed, ParamsGet(effect_params, "semitones", 0))
            [] effect_type = "distortion" ->
                 ApplyDistortion(processed, ParamsGet(effect_params, "amount", 10))
            [] OTHER -> Through(processed, effect_type)]

\* the loop of apply_effect_chain from the k-th entry of the map on
RECURSIVE EffectLoop(_, _, _, _)
EffectLoop(processed, effects, k, rate_of_samples) ==
  IF k > Len(effects) THEN [outcome |-> "returns", audio |-> processed]
  ELSE LET pass == ApplyEffect(processed, effects[k].effect_type,
                               effects[k].params, rate_of_samples)
       IN IF pass.outcome # "returns" THEN pass
          ELSE EffectLoop(pass.audio, effects, k + 1, rate_of_samples)

\* apply_effect_chain(audio, effects, sample_rate)
ApplyEffectChain(audio, effects, rate_of_samples) ==
  IF effects = <<>> THEN [outcome |-> "returns", audio |-> audio]
  ELSE EffectLoop(audio, effects, 1, rate_of_samples)

FxInit ==
  /\ fx_audio = [samples |-> <<>>, library |-> <<>>]
  /\ fx_effects = <<>>
  /\ fx_result = [outcome |-> "", audio |-> [samples |-> <<>>, library |-> <<>>]]
  /\ fx_state = "input"
  /\ IdleExcept("fx")

\* one more sample of the input buffer
AddSample ==
  /\ fx_state = "input"
  /\ fx_effects = <<>>
  /\ Len(fx_audio.samples) < MaxSamples
  /\ \E sample \in SamplePool :
       fx_audio' = [fx_audio EXCEPT !.samples = Append(@, sample)]
  /\ UNCHANGED <<fx_effects, fx_result, fx_state>>
  /\ UNCHANGED notFxVars

\* one more entry of the effect map, under a key it does not hold yet
AddEffect ==
  /\ fx_state = "input"
  /\ Len(fx_effects) < MaxEffects
  /\ \E entry \in EffectPool :
       /\ \A k \in DOMAIN fx_effects : fx_effects[k].effect_type # entry.effect_type
       /\ fx_effects' = Append(fx_effects, entry)
  /\ UNCHANGED <<fx_audio, fx_result, fx_state>>
  /\ UNCHANGED notFxVars

\* apply_effect_chain(audio, effects) with the default sample rate
CallApplyEffectChain ==
  /\ fx_state = "input"
  /\ fx_result' = ApplyEffectChain(fx_audio, fx_effects, sample_rate)
  /\ fx_state' = "applied"
  /\ UNCHANGED <<fx_audio, fx_effects>>
  /\ UNCHANGED notFxVars

FxNext ==
  \/ AddSample
  \/ AddEffect
  \/ CallApplyEffectChain

SpecFx == FxInit /\ [][FxNext]_vars

\* the entries of the effect map whose name the code recognises
Recognised == SelectSeq(fx_effects, LAMBDA entry : entry.effect_type \in KnownEffects)

\* C20: apply_effect_chain returns a buffer sample for sample identical to
\* its input when the effect map is empty; an effect name it does not
\* recognise is skipped without raising an error and without altering the
\* buffer: a map of unrecognised names alone returns the input, and a map
\* with other effects gives what the map without the unrecognised names
\* gives.
C20_EmptyMapIdentityUnknownEffectSkipped ==
  fx_state = "applied" =>
    /\ fx_effects = <<>> =>
         fx_result = [outcome |-> "returns", audio |-> fx_audio]
    /\ Recognised = <<>> =>
         fx_result = [outcome |-> "returns", audio |-> fx_audio]
    /\ fx_result = ApplyEffectChain(fx_audio, Recognised, sample_rate)

\* an unrecognised name, with effect_params of None, in a map whose tremolo changes
\* the samples
C20_Witness ==
  /\ fx_state = "applied"
  /\ \E k \in DOMAIN fx_effects :
       fx_effects[k] = [effect_type |-> "Reverb", params |-> NoneParams]
  /\ fx_result.outcome = "returns"
  /\ fx_result.audio.library = <<>>
  /\ fx_result.audio.samples # fx_audio.samples

-----------------------------------------------------------------------------
(* voice_profiles.py: profiles returned by create_voice_profile and         *)
(* generate_character_voice_profile, held by the caller while further       *)
(* profiles are derived in the same process                                 *)

\* the trait lists of the calls
TraitListPool ==
  {<<>>, <<"slow">>, <<"gravelly">>, <<"deep", "gravelly">>, <<"male">>,
   <<"child">>}

\* the base_profile_type arguments: two archetypes and a name that is not
\* one
BaseTypePool == {"male_deep", "child", "villain"}

HeldInit ==
  /\ held = <<>>
  /\ voice_traits = <<>> /\ vstate = "idle" /\ parameters = EmptyDict
  /\ profile = EmptyDict /\ base_effects = InitialBaseEffects
  /\ IdleExcept("held")

\* create_voice_profile(base_profile_type, voice_traits); the caller keeps
\* what it returns
CallCreateVoiceProfile ==
  /\ Len(held) < MaxHeld
  /\ \E base_profile_type \in BaseTypePool, traits \in TraitListPool :
       LET out == CreateVoiceProfile(base_profile_type, traits, base_effects)
       IN /\ held' = Append(held, [call |-> "create_voice_profile",
                                   base_profile_type |-> base_profile_type,
                                   voice_traits |-> traits,
                                   profile |-> out.profile])
          /\ base_effects' = out.heap
  /\ UNCHANGED <<voice_traits, vstate, parameters, profile>>
  /\ UNCHANGED notVoiceheldVars

\* generate_character_voice_profile(voice_traits); the caller keeps what it
\* returns
CallGenerateProfile ==
  /\ Len(held) < MaxHeld
  /\ \E traits \in TraitListPool :
       LET out == GenerateCharacterVoiceProfile(traits, base_effects)
       IN /\ held' = Append(held, [call |-> "generate_character_voice_profile",
                                   base_profile_type |-> BaseProfileOf(traits),
                                   voice_traits |-> traits,
                                   profile |-> out.profile])
          /\ base_effects' = out.heap
  /\ UNCHANGED <<voice_traits, vstate, parameters, profile>>
  /\ UNCHANGED notVoiceheldVars

HeldNext ==
  \/ CallCreateVoiceProfile
  \/ CallGenerateProfile

SpecHeld == HeldInit /\ [][HeldNext]_vars

\* C22: a profile, once returned, is never changed by later derivations:
\* every field of it, its effects map included, stays as it was returned.
C22_ReturnedProfileNeverChanges ==
  [][\A i \in DOMAIN held :
       Resolved(held'[i].profile, base_effects')
         = Resolved(held[i].profile, base_effects)]_vars

\* the fields of a profile the claim names
ProfileFields ==
  {"pitch", "pitch_range", "formant_shift", "speed", "volume", "clarity",
   "gender", "speaker_id"}

\* a trait of the list has the field in its entry of VOICE_TRAIT_MAPPINGS;
\* gender and the speaker identifier, which voice_traits_to_parameters
\* infers from pitch and formant_shift, count as affected with them
Affects(traits, field) ==
  \E i \in DOMAIN traits :
    /\ LowerTrait(traits[i]) \in DOMAIN VOICE_TRAIT_MAPPINGS
    /\ LET entry == VOICE_TRAIT_MAPPINGS[LowerTrait(traits[i])]
       IN \/ field \in DOMAIN entry
          \/ /\ field \in {"gender", "speaker_id"}
             /\ {"pitch", "formant_shift"} \cap DOMAIN entry # {}

\* the archetype create_voice_profile starts from
ArchetypeOf(base_profile_type) ==
  IF base_profile_type \in DOMAIN BASE_VOICE_PROFILES
    THEN BASE_VOICE_PROFILES[base_profile_type]
    ELSE BASE_VOICE_PROFILES["neutral"]

\* C23: create_voice_profile with a base archetype and a non-empty trait
\* list changes only what the traits specify: a field that none of the
\* traits affects keeps the base profile's value.
C23_UnaffectedFieldsKeepBaseValue ==
  \A i \in DOMAIN held :
    (held[i].call = "create_voice_profile" /\ held[i].voice_traits # <<>>) =>
      \A field \in ProfileFields :
        ~Affects(held[i].voice_traits, field) =>
          held[i].profile[field] = ArchetypeOf(held[i].base_profile_type)[field]

-----------------------------------------------------------------------------
(* sound_cue_extractor.py: extract_special_sound_treatments                 *)

\* the lines a script with notes is written from
NoteLinePool ==
  { <<"##", " ", "SPEAKER", " ", "NOTES">>,
    <<"##", " ", "PRODUCTION", " ", "NOTES">>,
    <<"*", "*", "Special", " ", "Audio", " ", "Considerations", ":", "*", "*">>,
    <<"*", "*", "Special", " ", "Audio", " ", "Treatment", ":", "*", "*">>,
    <<"-", " ", "Rain", " ", "gradually", " ", "louder">>,
    <<"-", " ", "keep", " ", "pauses", " ", "short">>,
    <<"1", ".", " ", "foghorn", " ", "mood">> }

\* the line is `phrase` from its first character on, with nothing but
\* blanks after it: r'^<phrase>\s*\n' matches at the line
IsLine(line, phrase) ==
  /\ Len(line) >= Len(phrase)
  /\ SubSeq(line, 1, Len(phrase)) = phrase
  /\ \A k \in (Len(phrase) + 1)..Len(line) : line[k] = " "

\* group 1 of r'^## <NAME> NOTES\s*\n(.*?)(?=^##|\Z)' (MULTILINE, DOTALL),
\* as its lines
NotesSection(text, heading) ==
  LET heads == {n \in DOMAIN text : IsLine(text[n], heading)}
  IN IF heads = {} THEN [matched |-> FALSE, lines |-> <<>>]
     ELSE LET m == FirstNonBlankAfter(text, Min(heads))
              stop == Min({j \in m..(Len(text) + 1) :
                             j = Len(text) + 1
                             \/ (text[j] # <<>> /\ text[j][1] = "##")})
          IN [matched |-> TRUE, lines |-> SubSeq(text, m, stop - 1)]

\* the places of a line where "**" stands
BoldAt(line) == {i \in 1..(Len(line) - 1) : line[i] = "*" /\ line[i + 1] = "*"}

\* group 1 of r'\*\*<Title>:\*\*\s*\n(.*?)(?=\*\*|\Z)' (DOTALL) in a notes
\* section, as its lines: it ends before the first "**", which may stand
\* inside a line
Subsection(notes, title) ==
  LET heads == {n \in DOMAIN notes : EndsLineWith(notes[n], title)}
  IN IF heads = {} THEN [matched |-> FALSE, lines |-> <<>>]
     ELSE LET m == FirstNonBlankAfter(notes, Min(heads))
              stops == {j \in m..Len(notes) : BoldAt(notes[j]) # {}}
          IN IF stops = {}
               THEN [matched |-> TRUE, lines |-> SubSeq(notes, m, Len(notes))]
             ELSE LET j == Min(stops)
                      cut == SubSeq(notes[j], 1, Min(BoldAt(notes[j])) - 1)
                  IN [matched |-> TRUE,
                      lines |-> SubSeq(notes, m, j - 1)
                                  \o (IF cut = <<>> THEN <<>> ELSE <<cut>>)]

\* re.findall(r'- (.+?)$', text, re.MULTILINE): of every line that holds
\* "- " with something after it, what follows the first "- "
BulletPoints(lines) ==
  LET At(line) == {i \in 1..(Len(line) - 2) : line[i] = "-" /\ line[i + 1] = " "}
      with == SelectSeq(lines, LAMBDA line : At(line) # {})
  IN [k \in DOMAIN with |-> SubSeq(with[k], Min(At(with[k])) + 2, Len(with[k]))]

IsDigits(atom) == atom \in {"1", "2"}

\* re.findall(r'\d+\.\s*(.+?)$', text, re.MULTILINE): of every line that
\* holds a number, a dot and then something that is not blank, what follows
\* the blanks after the dot
TreatmentItems(lines) ==
  LET At(line) == {i \in 1..(Len(line) - 2) :
                     /\ IsDigits(line[i]) /\ line[i + 1] = "."
                     /\ SkipSpaces(line, i + 1) <= Len(line)}
      with == SelectSeq(lines, LAMBDA line : At(line) # {})
  IN [k \in DOMAIN with |->
        SubSeq(with[k], SkipSpaces(with[k], Min(At(with[k])) + 1), Len(with[k]))]

\* any(word in text.lower() for word in words)
AnyWordIn(words, text) == \E word \in words : KeywordIn(word, Lower(text))

\* the sound_types of _parse_special_treatment
sound_types ==
  {"sound", "audio", "effect", "sfx", "ambient", "background", "storm", "rain",
   "wind", "foghorn", "music", "thunder"}

\* _parse_special_treatment(text) for a sound-related text
ParseSpecialTreatment(text) ==
  LET base == [description |-> text, type |-> "sound_treatment"]
      gradual == AnyWordIn({"gradual", "gradually", "increase", "intensify", "build"},
                           text)
      t1 == IF ~gradual THEN base
            ELSE LET g == AddKey(base, "change_type", "gradual")
                 IN IF AnyWordIn({"increase", "intensify", "louder", "stronger"}, text)
                      THEN AddKey(g, "direction", "increasing")
                    ELSE IF AnyWordIn({"decrease", "fade", "softer", "quieter"}, text)
                      THEN AddKey(g, "direction", "decreasing")
                    ELSE g
      hits == {c \in DOMAIN sound_categories :
                 AnyKeywordIn(sound_categories[c].keywords, Lower(text))}
      t2 == IF hits = {} THEN t1
            ELSE AddKey(t1, "category", sound_categories[Min(hits)].category)
  IN IF AnyWordIn({"narrative", "tension", "mood", "emotional"}, text)
       THEN AddKey(t2, "narrative_linked", TRUE)
     ELSE t2

\* the treatments of the items _parse_special_treatment does not return
\* None for, in order
TreatmentsOf(items) ==
  LET related == SelectSeq(items, LAMBDA text : AnyWordIn(sound_types, Strip(text)))
  IN [k \in DOMAIN related |-> ParseSpecialTreatment(Strip(related[k]))]

\* extract_special_sound_treatments(script_content)
ExtractSpecialSoundTreatments(script_content) ==
  LET speaker_notes_match ==
        NotesSection(script_content, <<"##", " ", "SPEAKER", " ", "NOTES">>)
      special_audio_match ==
        Subsection(speaker_notes_match.lines,
                   <<"*", "*", "Special", " ", "Audio", " ", "Considerations", ":",
                     "*", "*">>)
      production_notes_match ==
        NotesSection(script_content, <<"##", " ", "PRODUCTION", " ", "NOTES">>)
      audio_treatment_match ==
        Subsection(production_notes_match.lines,
                   <<"*", "*", "Special", " ", "Audio", " ", "Treatment", ":",
                     "*", "*">>)
  IN IF ~speaker_notes_match.matched THEN <<>>
     ELSE IF ~special_audio_match.matched THEN <<>>
     ELSE TreatmentsOf(BulletPoints(special_audio_match.lines))
            \o TreatmentsOf(TreatmentItems(audio_treatment_match.lines))

NotesInit ==
  /\ notes_script = <<>>
  /\ treatments = <<>>
  /\ notes_state = "editing"
  /\ IdleExcept("notes")

\* one more line of the script file
WriteNoteLine ==
  /\ notes_state = "editing"
  /\ Len(notes_script) < MaxNoteLines
  /\ \E line \in NoteLinePool : notes_script' = Append(notes_script, line)
  /\ UNCHANGED <<treatments, notes_state>>
  /\ UNCHANGED notNotesVars

\* extract_special_sound_treatments(script_content)
CallExtractSpecialSoundTreatments ==
  /\ notes_state = "editing"
  /\ treatments' = ExtractSpecialSoundTreatments(notes_script)
  /\ notes_state' = "extracted"
  /\ UNCHANGED notes_script
  /\ UNCHANGED notNotesVars

NotesNext ==
  \/ WriteNoteLine
  \/ CallExtractSpecialSoundTreatments

SpecNotes == NotesInit /\ [][NotesNext]_vars

\* the lines between a heading line and the next line that starts with
\* "##", and in them the lines after a title line
LinesUnder(text, heading, title) ==
  LET section == NotesSection(text, heading).lines
  IN Subsection(section, title).lines

\* the text of a bullet or of a numbered item, if the line is one
ItemText(line) ==
  IF line # <<>> /\ line[1] = "-" THEN Strip(Tail(line))
  ELSE IF Len(line) >= 2 /\ IsDigits(line[1]) /\ line[2] = "." THEN Strip(SubSeq(line, 3, Len(line)))
  ELSE <<>>

\* the sound-related items among the lines, in order
SoundRelatedItems(lines) ==
  LET texts == [k \in DOMAIN lines |-> ItemText(lines[k])]
  IN SelectSeq(texts, LAMBDA text : text # <<>> /\ AnyWordIn(sound_types, text))

\* C24: the treatments returned are those of every sound-related bullet
\* under SPEAKER NOTES / Special Audio Considerations and of every
\* sound-related numbered item under PRODUCTION NOTES / Special Audio
\* Treatment, the second source being read whether or not the first is in
\* the script.
C24_TreatmentsFromBothSources ==
  notes_state = "extracted" =>
    [k \in DOMAIN treatments |-> treatments[k].description]
      = SoundRelatedItems(
          SelectSeq(LinesUnder(notes_script,
                               <<"##", " ", "SPEAKER", " ", "NOTES">>,
                               <<"*", "*", "Special", " ", "Audio", " ",
                                 "Considerations", ":", "*", "*">>),
                    LAMBDA line : line # <<>> /\ line[1] = "-"))
        \o SoundRelatedItems(
             SelectSeq(LinesUnder(notes_script,
                                  <<"##", " ", "PRODUCTION", " ", "NOTES">>,
                                  <<"*", "*", "Special", " ", "Audio", " ",
                                    "Treatment", ":", "*", "*">>),
                       LAMBDA line : line # <<>> /\ IsDigits(line[1])))

-----------------------------------------------------------------------------
(* markdown_parser.py: parse_scene on scene content with narration *)

\* The lines a scene is written from.
SceneLinePool ==
  { <<>>,
    <<"[sound:", " ", "rain", "]">>,
    <<"[sound:", " ", "rain", "]", " ", "Narrator", ":", " ", "Fog">>,
    <<"Narrator", ":", " ", "Fog">>,
    <<"Hello", " ", "there">>,
    <<"*", "*", "John", "*", "*", ":", " ", "Hello", " ", "there">>,
    <<"*", "*", "John", "*", "*", ":", " ", "Narrator", ":", " ", "Hello">>,
    <<"*", "*", "Mary", "*", "*", " ", "(", "sad", ")", ":", " ", "Go">> }

SceneInit ==
  /\ script = <<>>
  /\ pstate = "editing"
  /\ sound_cues = <<>>
  /\ parsed = EmptyDict
  /\ scene_out = <<>>
  /\ speaker_notes = <<>>
  /\ validation = EmptyDict
  /\ IdleExcept("parse")

\* the author adds a line to the scene content
WriteSceneLine ==
  /\ pstate = "editing"
  /\ Len(script) < MaxLines
  /\ \E line \in SceneLinePool : script' = Append(script, line)
  /\ UNCHANGED <<pstate, sound_cues, parsed, scene_out, speaker_notes, validation>>
  /\ UNCHANGED notParseVars

SceneNext ==
  \/ WriteSceneLine
  \/ CallParseScene

SpecScene == SceneInit /\ [][SceneNext]_vars

\* the lines of the scene content that are not blank
NonBlankLines == {k \in DOMAIN script : Strip(script[k]) # <<>>}

\* the lines matched as a sound cue or by one of the dialogue patterns
MatchedLines ==
  {k \in NonBlankLines :
     \/ SoundStarts(Strip(script[k]), 1) # {}
     \/ StandardMatches(Strip(script[k]))
     \/ EmotionMatches(Strip(script[k]))}

\* the unmatched lines that hold "Narrator:"
NarrationLines == {k \in NonBlankLines \ MatchedLines : NarratorAt(Strip(script[k])) # {}}

\* C25: every non-blank line yields at most one element: the scene holds
\* exactly one element for each line matched as a sound cue or as dialogue
\* and one for each unmatched line with "Narrator:", so a matched line is
\* never turned into a Narrator element as well.
C25_AtMostOneElementPerLine ==
  pstate = "scene_parsed" =>
    /\ Len(scene_out) <= Cardinality(NonBlankLines)
    /\ Len(scene_out) = Cardinality(MatchedLines) + Cardinality(NarrationLines)

-----------------------------------------------------------------------------
(* voice_generator.py: initialize_voice_models, generate_voices,           *)
(* generate_voice_clip;  cli.py: generate_character_sample                 *)
(* One process; the loads of the model, the vocoder and the embedding      *)
(* table are counted.                                                      *)

\* config["voice_generator"]["models"]: the model identifier and the
\* preload_speakers switch
ModelsConfigs ==
  [tts_model : {"microsoft/speecht5_tts", "facebook/mms-tts"},
   preload_speakers : BOOLEAN]

\* what from_pretrained does: it returns, or it raises at the model or at
\* the vocoder
LoadOutcomes == {"loaded", "tts_raises", "vocoder_raises"}

IsSpeechT5(models_config) == models_config.tts_model = "microsoft/speecht5_tts"

\* VoiceGenerator.__init__ -> _load_models(): the loads it performs, as
\* <<models, vocoders, embedding tables>>
LoadModels(models_config, outcome) ==
  IF outcome = "tts_raises" THEN <<0, 0, 0>>
  ELSE IF outcome = "vocoder_raises" THEN <<1, 0, 0>>
  ELSE IF IsSpeechT5(models_config) \/ models_config.preload_speakers
    THEN <<1, 1, 1>>
  ELSE <<1, 1, 0>>

\* initialize_voice_models(config, use_gpu): a new VoiceGenerator
InitializeVoiceModels(models_config, outcome) == LoadModels(models_config, outcome)

ProcInit ==
  /\ entry_calls = <<>>
  /\ tts_model_loads = 0
  /\ vocoder_loads = 0
  /\ embedding_loads = 0
  /\ generators = 0
  /\ IdleExcept("proc")

\* one call of an entry point: each of the three initializes a generator of
\* its own before it synthesizes
CallEntry(entry) ==
  /\ Len(entry_calls) < MaxEntryCalls
  /\ \E models_config \in ModelsConfigs, outcome \in LoadOutcomes :
       LET loads == InitializeVoiceModels(models_config, outcome) IN
       /\ tts_model_loads' = tts_model_loads + loads[1]
       /\ vocoder_loads' = vocoder_loads + loads[2]
       /\ embedding_loads' = embedding_loads + loads[3]
       /\ generators' = generators + (IF outcome = "loaded" THEN 1 ELSE 0)
  /\ entry_calls' = Append(entry_calls, entry)
  /\ UNCHANGED notProcVars

\* generate_voices(script_data, config)
CallGenerateVoices == CallEntry("generate_voices")

\* generate_voice_clip(text, voice_profile, emotion, output_path, config)
CallGenerateVoiceClip == CallEntry("generate_voice_clip")

\* generate_character_sample(character_name, traits, text, output_dir, config)
CallGenerateCharacterSample == CallEntry("generate_character_sample")

ProcNext ==
  \/ CallGenerateVoices
  \/ CallGenerateVoiceClip
  \/ CallGenerateCharacterSample

SpecProc == ProcInit /\ [][ProcNext]_vars

\* C26: within one process the model, the vocoder and the embedding table
\* are loaded at most once, however many times generate_voices,
\* generate_voice_clip and generate_character_sample are called.
C26_ModelsLoadedAtMostOncePerProcess ==
  /\ tts_model_loads <= 1
  /\ vocoder_loads <= 1
  /\ embedding_loads <= 1

-----------------------------------------------------------------------------
(* validator.py: validate_script on the documents of either dialect *)

\* The documents the parsers return before any definition or scene is read.
\* parser.py returns metadata, characters, effects and scenes; the canonical
\* parser returns no effects, and its elements never hold an effect.
EmptyDocuments ==
  { [metadata |-> [title |-> <<"T">>, runtime |-> <<"5">>, premise |-> <<"P">>],
     characters |-> EmptyDict, effects |-> EmptyDict, scenes |-> <<>>],
    [metadata |-> [main_title |-> <<"T">>],
     characters |-> EmptyDict, effects |-> EmptyDict, scenes |-> <<>>],
    [metadata |-> [title |-> <<"T">>, runtime |-> <<"5">>, premise |-> <<"P">>],
     characters |-> EmptyDict, scenes |-> <<>>] }

\* the character and effect codes a script can define, and the ones its
\* dialogue can name
DefinableCharacters == {<<"JOHN">>}
DefinableEffects == {<<"ECHO">>}
NamedCharacters == {<<"JOHN">>, <<"GHOST">>}

\* the elements a scene line parses to
DialogueOf(character) == [type |-> "dialogue", character |-> character, text |-> <<"Hi">>]

DocumentElements(document) ==
  {DialogueOf(c) : c \in NamedCharacters}
    \cup {[type |-> "sound", description |-> <<"rain">>]}
    \cup (IF "effects" \in DOMAIN document
            THEN {AddKey(DialogueOf(<<"JOHN">>), "effect", <<"REVERB">>),
                  AddKey(DialogueOf(<<"GHOST">>), "effect", <<"ECHO">>)}
            ELSE {})

ValidateInit ==
  /\ script = <<>>
  /\ pstate = "parsed"
  /\ sound_cues = <<>>
  /\ parsed \in EmptyDocuments
  /\ scene_out = <<>>
  /\ speaker_notes = <<>>
  /\ validation = EmptyDict
  /\ IdleExcept("parse")

\* the parser reads the definition of a character
DefineCharacter ==
  /\ pstate = "parsed"
  /\ \E c \in DefinableCharacters \ DOMAIN parsed.characters :
       parsed' = [parsed EXCEPT !.characters = AddKey(@, c, <<"deep">>)]
  /\ UNCHANGED <<script, pstate, sound_cues, scene_out, speaker_notes, validation>>
  /\ UNCHANGED notParseVars

\* the parser reads the definition of an effect
DefineEffect ==
  /\ pstate = "parsed"
  /\ "effects" \in DOMAIN parsed
  /\ \E e \in DefinableEffects \ DOMAIN parsed.effects :
       parsed' = [parsed EXCEPT !.effects = AddKey(@, e, <<"long">>)]
  /\ UNCHANGED <<script, pstate, sound_cues, scene_out, speaker_notes, validation>>
  /\ UNCHANGED notParseVars

\* the parser reads a scene header; the scenes after the first share a name
AppendScene ==
  /\ pstate = "parsed"
  /\ Len(parsed.scenes) < MaxScenes
  /\ LET name == IF parsed.scenes = <<>> THEN <<"ONE">> ELSE <<"TWO">> IN
     parsed' = [parsed EXCEPT !.scenes = Append(@, [name |-> name, elements |-> <<>>])]
  /\ UNCHANGED <<script, pstate, sound_cues, scene_out, speaker_notes, validation>>
  /\ UNCHANGED notParseVars

\* the parser reads a line of the last scene
AppendElement ==
  /\ pstate = "parsed"
  /\ parsed.scenes # <<>>
  /\ Len(SceneElementRefs(parsed.scenes)) < MaxElements
  /\ \E element \in DocumentElements(parsed) :
       parsed' = [parsed EXCEPT !.scenes[Len(parsed.scenes)].elements = Append(@, element)]
  /\ UNCHANGED <<script, pstate, sound_cues, scene_out, speaker_notes, validation>>
  /\ UNCHANGED notParseVars

ValidateNext ==
  \/ DefineCharacter
  \/ DefineEffect
  \/ AppendScene
  \/ AppendElement
  \/ CallValidateScript

SpecValidate == ValidateInit /\ [][ValidateNext]_vars

\* the dialogue elements of the document, each with its scene name and its
\* index in the scene
DialogueRefs ==
  SelectSeq(SceneElementRefs(parsed.scenes), LAMBDA r : r.el.type = "dialogue")

\* the entry that reports the character of a dialogue element, and the one
\* that reports its effect
CharacterReport(r) ==
  [error |-> "undefined character", scene |-> r.scene, element |-> r.element,
   reference |-> r.el.character]

EffectReport(r) ==
  [error |-> "undefined effect", scene |-> r.scene, element |-> r.element,
   reference |-> r.el.effect]

NamesUndefinedCharacter(r) == r.el.character \notin DOMAIN parsed.characters

NamesUndefinedEffect(r) ==
  /\ "effect" \in DOMAIN r.el
  /\ "effects" \in DOMAIN parsed
  /\ r.el.effect \notin DOMAIN parsed.effects

\* C27: validate_script returns one entry for every dialogue element that
\* names an undefined character and one for every dialogue element that
\* names an undefined effect, all of them, and is_valid is true exactly when
\* the error list is empty.
C27_AllUndefinedReferencesReported ==
  pstate = "validated" =>
    /\ \A k \in DOMAIN DialogueRefs :
         LET r == DialogueRefs[k] IN
         /\ NamesUndefinedCharacter(r) =>
              Count(validation.errors, LAMBDA e : e = CharacterReport(r))
                = Count(DialogueRefs, LAMBDA q : NamesUndefinedCharacter(q)
                                                    /\ CharacterReport(q) = CharacterReport(r))
         /\ NamesUndefinedEffect(r) =>
              Count(validation.errors, LAMBDA e : e = EffectReport(r))
                = Count(DialogueRefs, LAMBDA q : NamesUndefinedEffect(q)
                                                    /\ EffectReport(q) = EffectReport(r))
    /\ Count(validation.errors, LAMBDA e : e.error = "undefined character")
         = Count(DialogueRefs, NamesUndefinedCharacter)
    /\ Count(validation.errors, LAMBDA e : e.error = "undefined effect")
         = Count(DialogueRefs, NamesUndefinedEffect)
    /\ validation.is_valid <=> validation.errors = <<>>

\* a validated document with two dialogue elements that name an undefined
\* character and one that names an undefined effect, all three reported
C27_Witness ==
  /\ pstate = "validated"
  /\ Count(DialogueRefs, NamesUndefinedCharacter) = 2
  /\ Count(DialogueRefs, NamesUndefinedEffect) = 1
  /\ Len(validation.errors) = 3
  /\ ~validation.is_valid

-----------------------------------------------------------------------------
(* script_structure_builder.py: build_script_structure with special        *)
(* treatments, on scenes whose sound elements hold their category          *)

\* the elements of the scenes
TreatedElementPool ==
  { [type |-> "sound", description |-> <<"heavy", " ", "rain">>, category |-> "weather"],
    [type |-> "sound", description |-> <<"door">>, category |-> "object"],
    [type |-> "sound", description |-> <<"thunder">>],
    [type |-> "dialogue", character |-> <<"John">>, text |-> <<"Hello">>] }

\* the treatments extract_special_sound_treatments and a caller can pass
TreatmentPool ==
  { [description |-> <<"storm">>, type |-> "sound_treatment", category |-> "weather"],
    [description |-> <<"storm", " ", "mood">>, type |-> "sound_treatment",
     category |-> "weather", narrative_linked |-> TRUE],
    [description |-> <<"audio", " ", "tension">>, type |-> "sound_treatment",
     narrative_linked |-> TRUE],
    [description |-> <<"ocean", " ", "sound">>, type |-> "sound_treatment",
     category |-> "ambient"],
    [description |-> <<"pacing">>, type |-> "voice_treatment", category |-> "weather"] }

TreatInit ==
  /\ tr_scenes = <<>>
  /\ tr_treatments = <<>>
  /\ tr_structure = EmptyDict
  /\ tr_state = "arguments"
  /\ IdleExcept("treat")

\* the caller adds a scene to the scenes argument
AddTreatedScene ==
  /\ tr_state = "arguments"
  /\ Len(tr_scenes) < MaxScenes
  /\ LET name == IF tr_scenes = <<>> THEN <<"SCENE_ONE">> ELSE <<"SCENE_TWO">> IN
     tr_scenes' = Append(tr_scenes, [name |-> name, elements |-> <<>>])
  /\ UNCHANGED <<tr_treatments, tr_structure, tr_state>>
  /\ UNCHANGED notTreatVars

\* the caller adds an element to the last scene
AddTreatedElement ==
  /\ tr_state = "arguments"
  /\ tr_scenes # <<>>
  /\ Len(Flatten([i \in DOMAIN tr_scenes |-> tr_scenes[i].elements])) < MaxElements
  /\ \E element \in TreatedElementPool :
       tr_scenes' = [tr_scenes EXCEPT ![Len(tr_scenes)].elements = Append(@, element)]
  /\ UNCHANGED <<tr_treatments, tr_structure, tr_state>>
  /\ UNCHANGED notTreatVars

\* the caller adds a treatment to the special_treatments argument
AddTreatment ==
  /\ tr_state = "arguments"
  /\ Len(tr_treatments) < MaxTreatments
  /\ \E treatment \in TreatmentPool : tr_treatments' = Append(tr_treatments, treatment)
  /\ UNCHANGED <<tr_scenes, tr_structure, tr_state>>
  /\ UNCHANGED notTreatVars

\* build_script_structure(metadata, characters, scenes, sound_cues,
\* special_treatments)
CallBuildScriptStructure ==
  /\ tr_state = "arguments"
  /\ tr_structure' = BuildScriptStructure(EmptyDict, Characters, tr_scenes, <<>>,
                                          tr_treatments, DefaultParams)
  /\ tr_state' = "built"
  /\ UNCHANGED <<tr_scenes, tr_treatments>>
  /\ UNCHANGED notTreatVars

TreatNext ==
  \/ AddTreatedScene
  \/ AddTreatedElement
  \/ AddTreatment
  \/ CallBuildScriptStructure

SpecTreat == TreatInit /\ [][TreatNext]_vars

\* the sound elements of the returned timeline with the category of the
\* i-th treatment
TimelineElements ==
  Flatten([s \in DOMAIN tr_structure.timeline |-> tr_structure.timeline[s].elements])

Matching(i) ==
  IF "category" \in DOMAIN tr_treatments[i]
    THEN SelectSeq(TimelineElements,
                   LAMBDA e : e.type = "sound" /\ "category" \in DOMAIN e
                              /\ e.category = tr_treatments[i].category)
    ELSE <<>>

IsSoundTreatment(i) == tr_treatments[i].type = "sound_treatment"

IsNarrativeLinked(i) ==
  "narrative_linked" \in DOMAIN tr_treatments[i] /\ tr_treatments[i].narrative_linked

\* C29: after build_script_structure a narrative-linked treatment spans
\* from 0 to estimated_duration whatever its category matched, and a
\* treatment that is not narrative-linked and whose category matches at
\* least one sound element of the timeline spans from the smallest
\* start_time to the largest start_time + duration of the matching
\* elements, which are recorded as affected.
C29_TreatmentSpans ==
  tr_state = "built" =>
    \A i \in DOMAIN tr_treatments :
      LET treated == tr_structure.special_treatments[i]
          matching == Matching(i)
      IN IsSoundTreatment(i) =>
           /\ IsNarrativeLinked(i) =>
                /\ treated.start_time = 0
                /\ treated.end_time = tr_structure.estimated_duration
                /\ treated.duration = tr_structure.estimated_duration
           /\ (~IsNarrativeLinked(i) /\ matching # <<>>) =>
                /\ \A k \in DOMAIN matching :
                     /\ treated.start_time <= matching[k].start_time
                     /\ treated.end_time >= matching[k].start_time + matching[k].duration
                /\ \E k \in DOMAIN matching : treated.start_time = matching[k].start_time
                /\ \E k \in DOMAIN matching :
                     treated.end_time = matching[k].start_time + matching[k].duration
                /\ treated.duration = treated.end_time - treated.start_time
                /\ treated.affected_elements = matching

\* a built structure with two weather sounds, a weather treatment that
\* spans from the first to the end of the second, and a narrative-linked
\* weather treatment that spans the whole document
C29_Witness ==
  /\ tr_state = "built"
  /\ Len(tr_treatments) = 2
  /\ ~IsNarrativeLinked(1) /\ IsSoundTreatment(1) /\ Len(Matching(1)) = 2
  /\ tr_structure.special_treatments[1].start_time = 0
  /\ tr_structure.special_treatments[1].end_time > Matching(1)[2].start_time
  /\ tr_structure.special_treatments[1].end_time < tr_structure.estimated_duration
  /\ IsNarrativeLinked(2) /\ Matching(2) # <<>>
  /\ tr_structure.special_treatments[2].end_time = tr_structure.estimated_duration

-----------------------------------------------------------------------------
(* voice_generator/effects.py: apply_eq                                     *)

\* A sample is the part of it in each band, in hundredths: the low-pass
\* filter at 300 Hz keeps the low part, the high-pass filter at 3000 Hz the
\* high part, the two filters in a row the mid part.  A band of the result
\* is in ten-thousandths, a gain in hundredths.

\* the params of an "eq" entry of an effect map; {"high": 1.2} is the entry
\* of the trait "british"
EqParamsPool ==
  { EmptyDict,
    [high |-> 120],
    [low |-> 50],
    [mid |-> 120, high |-> 50],
    [low |-> 50, mid |-> 120, high |-> 0],
    [low |-> 0, mid |-> 0, high |-> 0],
    [low |-> 100, mid |-> 100, high |-> 100] }

EqSamplePool ==
  { [low |-> 20, mid |-> -10, high |-> 10],
    [low |-> 0, mid |-> 30, high |-> -20],
    [low |-> -90, mid |-> -50, high |-> -60] }

\* abs(gain - 1.0) < 0.01
NearUnity(gain) == (IF gain < 100 THEN 100 - gain ELSE gain - 100) < 1

\* np.zeros_like(audio)
ZerosLike(audio) == [n \in DOMAIN audio |-> [low |-> 0, mid |-> 0, high |-> 0]]

\* the audio itself, on the scale of a result
Unchanged(audio) ==
  [n \in DOMAIN audio |-> [low |-> audio[n].low * 100, mid |-> audio[n].mid * 100,
                           high |-> audio[n].high * 100]]

\* np.max(np.abs(result)) > 1.0
Clips(result) ==
  \E n \in DOMAIN result :
    LET sample == result[n].low + result[n].mid + result[n].high
    IN (IF sample < 0 THEN -sample ELSE sample) > 100 * 100

\* apply_eq(audio, low, mid, high, sample_rate): the bands of the result
\* before the division by max_val, and whether the result is divided
ApplyEq(audio, low, mid, high) ==
  IF NearUnity(low) /\ NearUnity(mid) /\ NearUnity(high)
    THEN [bands |-> Unchanged(audio), normalized |-> FALSE]
  ELSE IF low = 0 /\ mid = 0 /\ high = 0
    THEN [bands |-> ZerosLike(audio), normalized |-> FALSE]
  ELSE LET result ==
             [n \in DOMAIN audio |->
                [low |-> IF ~NearUnity(low) THEN audio[n].low * low ELSE 0,
                 mid |-> IF ~NearUnity(mid) THEN audio[n].mid * mid ELSE 0,
                 high |-> IF ~NearUnity(high) THEN audio[n].high * high ELSE 0]]
       IN [bands |-> result, normalized |-> Clips(result)]

EqInit ==
  /\ eq_audio = <<>>
  /\ eq_params \in EqParamsPool
  /\ eq_result = EmptyDict
  /\ eq_state = "recording"
  /\ IdleExcept("eq")

\* one more sample of the audio
AddEqSample ==
  /\ eq_state = "recording"
  /\ Len(eq_audio) < MaxSamples
  /\ \E sample \in EqSamplePool : eq_audio' = Append(eq_audio, sample)
  /\ UNCHANGED <<eq_params, eq_result, eq_state>>
  /\ UNCHANGED notEqVars

\* the "eq" branch of apply_effect_chain: apply_eq(processed,
\* low=params.get("low", 1.0), mid=params.get("mid", 1.0),
\* high=params.get("high", 1.0))
CallApplyEq ==
  /\ eq_state = "recording"
  /\ eq_result' = ApplyEq(eq_audio, ParamsGet(eq_params, "low", 100),
                          ParamsGet(eq_params, "mid", 100),
                          ParamsGet(eq_params, "high", 100))
  /\ eq_state' = "equalized"
  /\ UNCHANGED <<eq_audio, eq_params>>
  /\ UNCHANGED notEqVars

EqNext ==
  \/ AddEqSample
  \/ CallApplyEq

SpecEq == EqInit /\ [][EqNext]_vars

\* C30: apply_eq returns the sum of the low, mid and high bands each
\* multiplied by its own gain: a band whose gain is 1.0 contributes its
\* unscaled band signal also when another gain differs from 1.0.
C30_SumOfBandsTimesGains ==
  eq_state = "equalized" =>
    \A n \in DOMAIN eq_audio :
      /\ eq_result.bands[n].low = eq_audio[n].low * ParamsGet(eq_params, "low", 100)
      /\ eq_result.bands[n].mid = eq_audio[n].mid * ParamsGet(eq_params, "mid", 100)
      /\ eq_result.bands[n].high = eq_audio[n].high * ParamsGet(eq_params, "high", 100)

=============================================================================
